---- MODULE Spec2Model ----
(***************************************************************************)
(* Model of the Manifold Bingo 2026 viewer (src/app.js): the win-          *)
(* probability estimator, the 24-hour statistics, the market aggregation,  *)
(* the bet-history cache and the batched live-data loads of the index and  *)
(* card pages.                                                             *)
(*                                                                         *)
(* Numbers.  A cell or market probability is an integer k in 0..ProbSteps  *)
(* standing for k/ProbSteps.  The product of the five probabilities of a   *)
(* line is then an integer over LineUnit = ProbSteps^5, and a win          *)
(* probability is an exact fixed-point number with one integer digit and   *)
(* twelve fractional digits in base LineUnit (type Fx, least significant   *)
(* digit first).  The arithmetic is that of the real numbers: the rounding *)
(* of IEEE doubles is not modelled.                                        *)
(*                                                                         *)
(* A JavaScript null/undefined is NULL (the empty tuple); a nullable       *)
(* number n is the one-element tuple <<n>>.                                 *)
(***************************************************************************)
EXTENDS Integers, Sequences, FiniteSets, TLC

\* Probabilities are the multiples of 1/ProbSteps in [0, 1].
ProbSteps == 2

Probs == 0..ProbSteps

NULL == <<>>

Some(v) == <<v>>

Val(x) == x[1]

\* JavaScript's  x ?? d  on a nullable number x and a number d.
Coalesce(x, d) == IF x = NULL THEN d ELSE Val(x)

\* A quotient of two integers, kept exact.
Ratio(n, d) == [num |-> n, den |-> d]

(***************************************************************************)
(* The line model.                                                         *)
(***************************************************************************)
LINES ==
    << [name |-> "Row 1", indices |-> <<0, 1, 2, 3, 4>>],
       [name |-> "Row 2", indices |-> <<5, 6, 7, 8, 9>>],
       [name |-> "Row 3", indices |-> <<10, 11, 12, 13, 14>>],
       [name |-> "Row 4", indices |-> <<15, 16, 17, 18, 19>>],
       [name |-> "Row 5", indices |-> <<20, 21, 22, 23, 24>>],
       [name |-> "Col 1", indices |-> <<0, 5, 10, 15, 20>>],
       [name |-> "Col 2", indices |-> <<1, 6, 11, 16, 21>>],
       [name |-> "Col 3", indices |-> <<2, 7, 12, 17, 22>>],
       [name |-> "Col 4", indices |-> <<3, 8, 13, 18, 23>>],
       [name |-> "Col 5", indices |-> <<4, 9, 14, 19, 24>>],
       [name |-> "Diag \\", indices |-> <<0, 6, 12, 18, 24>>],
       [name |-> "Diag /", indices |-> <<4, 8, 12, 16, 20>>] >>

FREE_SPACE_INDEX == 12

\* The positions of a grid: card.grid and every probability vector are
\* indexed 0..24 as in the source.
Cells == 0..24

(***************************************************************************)
(* Exact fixed-point arithmetic for win probabilities.                     *)
(***************************************************************************)
\* The denominator of a product of five cell probabilities.
LineUnit == ProbSteps ^ 5

\* An Fx has one fractional digit per line and one integer digit.
FxLen == Len(LINES) + 1

FxZero == [i \in 1..FxLen |-> 0]

FxOne == [i \in 1..FxLen |-> IF i = FxLen THEN 1 ELSE 0]

RECURSIVE FxScale(_, _, _, _)
\* The digits i.. of  y * m + carry  (m a small natural).
FxScale(y, m, i, carry) ==
    IF i > Len(y) THEN << >>
    ELSE CHOOSE digits \in {<< t % LineUnit >> \o FxScale(y, m, i + 1, t \div LineUnit) :
                              t \in {y[i] * m + carry}} : TRUE

\* x * (m / LineUnit): one digit to the right, then times m.
FxMulFrac(x, m) ==
    FxScale([i \in 1..Len(x) |-> IF i < Len(x) THEN x[i + 1] ELSE 0], m, 1, 0)

RECURSIVE FxSubFrom(_, _, _, _)
\* The digits i.. of  a - b - borrow  (a >= b).
FxSubFrom(a, b, i, borrow) ==
    IF i > Len(a) THEN << >>
    ELSE LET t == a[i] - b[i] - borrow
         IN  IF t < 0 THEN << t + LineUnit >> \o FxSubFrom(a, b, i + 1, 1)
                      ELSE << t >> \o FxSubFrom(a, b, i + 1, 0)

\* The operands are values before the digits are taken.
FxSub(a, b) == CHOOSE digits \in {FxSubFrom(x, y, 1, 0) : x \in {a}, y \in {b}} : TRUE

RECURSIVE FxLessFrom(_, _, _)
FxLessFrom(a, b, i) ==
    IF i = 0 THEN FALSE
    ELSE IF a[i] # b[i] THEN a[i] < b[i]
    ELSE FxLessFrom(a, b, i - 1)

FxLess(a, b) == \E x \in {a}, y \in {b} : FxLessFrom(x, y, Len(x))

FxLeq(a, b) == a = b \/ FxLess(a, b)

\* The probability k/ProbSteps as an Fx.
FxOfProb(k) ==
    IF k = ProbSteps THEN FxOne
    ELSE [i \in 1..FxLen |-> IF i = FxLen - 1 THEN k * (LineUnit \div ProbSteps) ELSE 0]

(***************************************************************************)
(* approximateWinProb (src/app.js 1444-1458).                              *)
(***************************************************************************)
RECURSIVE lineProbLoop(_, _, _, _)
\* for (const idx of line.indices) lineProb *= probs[idx];
lineProbLoop(probs, indices, k, lineProb) ==
    IF k > Len(indices) THEN lineProb
    ELSE lineProbLoop(probs, indices, k + 1, lineProb * probs[indices[k]])

RECURSIVE linesLoop(_, _, _, _)
\* for (const line of LINES) probAllLinesFail *= (1 - lineProb);
linesLoop(probs, lines, n, probAllLinesFail) ==
    IF n > Len(lines) THEN probAllLinesFail
    ELSE LET lineProb == lineProbLoop(probs, lines[n].indices, 1, 1)
         IN  \* the product is a value before the next iteration starts
             CHOOSE result \in {linesLoop(probs, lines, n + 1, product) :
                                   product \in {FxMulFrac(probAllLinesFail, LineUnit - lineProb)}} :
                 TRUE

\* The estimator over the rows and the columns only.
approximateWinProb_withoutDiagonals(probs) ==
    FxSub(FxOne, linesLoop(probs, SubSeq(LINES, 1, 10), 1, FxOne))

\* The estimator with its loop ending one line early.
approximateWinProb_skipsLastLine(probs) ==
    FxSub(FxOne, linesLoop(probs, SubSeq(LINES, 1, Len(LINES) - 1), 1, FxOne))

approximateWinProb(probs) == FxSub(FxOne, linesLoop(probs, LINES, 1, FxOne))

(***************************************************************************)
(* State.                                                                  *)
(***************************************************************************)
VARIABLES
    now,         \* Date.now(): milliseconds since an origin before any entry
    probs,       \* the 25-entry vector handed to approximateWinProb
    winProb,     \* its result, NULL before the call
    timeline,    \* the timeline handed to computeMarket24hStats
    currentProb, \* the current probability handed to it
    stats,       \* its result, NULL before the call
    cards,       \* the cards of the index feed (data.cards)
    marketsMap,  \* the result of collectUniqueMarkets, NULL before the call
    marketDataMap,  \* slug -> [currentProb, stats], handed to computeCardStats
    cardsWithStats, \* the result of computeCardStats, NULL before the call
    sparklineCache, \* sessionStorage[SPARKLINE_CACHE_KEY]: contractId -> [data, timestamp]
    betCalls,       \* the fetchBetHistory calls awaiting their response
    nCalls,         \* how many times fetchBetHistory has been called
    lastCall,       \* the latest fetchBetHistory call, NULL before the first
    page,           \* the page being loaded: "index", "card", or "none"
    pagePc,         \* where the load stands: "start", "live", "stats", "done"
    currentCard,    \* the card of the card page, NULL elsewhere
    marketsArr,     \* displayMarketActivity: markets, Array.from(marketsMap.values())
    batchStart,     \* the loop variable i of the batch loop in progress
    inFlight,       \* the requests sent and not yet answered
    results,        \* position -> what the promise of that position resolved to
    marketsList,    \* displayMarketActivity: the markets after the live phase
    marketsWithStats, \* displayMarketActivity: the markets after the stats phase
    liveProbs,      \* fetchLivePrices: the live vector, NULL before it is built
    cardLiveWinProb, \* fetchLivePrices: liveWinProb, NULL before it is computed
    liveRequestCount, \* slug -> requests sent to the market endpoint
    betRequestCount,  \* contract id -> requests sent to the bets endpoint
    responses,      \* <<phase, position>> -> the response that request received
    storage,        \* localStorage and sessionStorage: key -> the text stored, NULL if none
    lastSave,       \* the latest saveLastSeenProbs call, NULL before the first
    reads,          \* what the getLastSeenProbs calls since the latest save returned
    deltas,         \* the latest calculateCardDeltas call, NULL before the first
    loads,          \* the outcome of the index fetch of each loadCardsIndex so far
    leaderboardSortState,  \* {column, direction} of the live leaderboard
    activitySortState,     \* {column, direction} of the activity feed
    shownCards,     \* the rows of the leaderboard as displayed
    shownMarkets,   \* the rows of the activity feed as displayed
    lastSort,       \* the latest call of sortCards or sortMarkets, NULL before the first
    clicks,         \* the sort-header clicks so far
    lineCells,      \* the line-probability cells of the card page, NULL before they are rendered
    dprobs,         \* a vector of doubles handed to approximateWinProb
    estimates       \* what it returned for the vector and for its images, NULL before the calls

winVars == <<probs, winProb>>

statsVars == <<timeline, currentProb, stats>>

collectVars == <<marketsMap>>

cardStatsVars == <<marketDataMap, cardsWithStats>>

cacheVars == <<sparklineCache, betCalls, nCalls, lastCall>>

loadVars == <<page, pagePc, currentCard, marketsArr, batchStart, inFlight, results, marketsList,
              marketsWithStats, liveProbs, cardLiveWinProb>>

historyVars == <<liveRequestCount, betRequestCount, responses>>

pageVars == <<loadVars, historyVars>>

baselineVars == <<storage, lastSave, reads, deltas, loads>>

sortVars == <<leaderboardSortState, activitySortState, shownCards, shownMarkets, lastSort, clicks>>

lineVars == <<lineCells>>

doubleVars == <<dprobs, estimates>>

vars == <<now, winVars, statsVars, cards, collectVars, cardStatsVars, cacheVars, pageVars,
          baselineVars, sortVars, lineVars, doubleVars>>

\* One day, in milliseconds.
DAY_MS == 24 * 60 * 60 * 1000

\* The clock when a page starts to load.
StartTime == 2 * DAY_MS

\* What the variables of a component hold while no specification uses it.
IdleWin == probs = [c \in Cells |-> 0] /\ winProb = NULL

IdleStats == timeline = NULL /\ currentProb = 0 /\ stats = NULL

IdleCards == cards = <<>>

IdleCollect == marketsMap = NULL

IdleCardStats == marketDataMap = <<>> /\ cardsWithStats = NULL

IdleCache == sparklineCache = <<>> /\ betCalls = <<>> /\ nCalls = 0 /\ lastCall = NULL

IdleCalls == betCalls = <<>> /\ nCalls = 0 /\ lastCall = NULL

IdleLoad ==
    /\ pagePc = "start" /\ marketsArr = <<>> /\ batchStart = 0 /\ inFlight = {} /\ results = <<>>
    /\ marketsList = <<>> /\ marketsWithStats = <<>> /\ liveProbs = NULL /\ cardLiveWinProb = NULL
    /\ liveRequestCount = <<>> /\ betRequestCount = <<>> /\ responses = <<>>

IdlePage == page = "none" /\ currentCard = NULL /\ IdleLoad

IdleBaseline ==
    storage = <<>> /\ lastSave = NULL /\ reads = <<>> /\ deltas = NULL /\ loads = <<>>

IdleLines == lineCells = NULL

IdleDouble == dprobs = <<>> /\ estimates = NULL

\* The sort states as the script sets them, nothing displayed yet.
IdleSort ==
    /\ leaderboardSortState = [column |-> "prob", direction |-> "desc"]
    /\ activitySortState = [column |-> "change", direction |-> "desc"]
    /\ shownCards = <<>> /\ shownMarkets = <<>> /\ lastSort = NULL /\ clicks = <<>>

(***************************************************************************)
(* Cards.  A cell is [slug, prob, resolved]; a slug is a positive number   *)
(* naming a market, and 0 stands for a missing or empty slug.  A card is   *)
(* [card_id, user_handle, status, grid, win_probability] with grid NULL or *)
(* Some(function from Cells to cells) and win_probability an Fx.           *)
(***************************************************************************)
Cell(slug, prob) == [slug |-> slug, prob |-> prob, resolved |-> "null"]

\* !cell.slug
NoSlug(cell) == cell.slug = 0

(***************************************************************************)
(* collectUniqueMarkets (src/app.js 970-1002).  The Map it returns is the  *)
(* sequence of its values in insertion order.                              *)
(***************************************************************************)
\* markets.has(slug) / markets.get(slug): the position of slug, 0 if absent.
MarketIndex(markets, slug) ==
    IF \E k \in 1..Len(markets) : markets[k].slug = slug
    THEN CHOOSE k \in 1..Len(markets) : markets[k].slug = slug
    ELSE 0

\* cardIds.includes(id)
Includes(ids, id) == \E k \in 1..Len(ids) : ids[k] = id

\* The body of the inner loop with the includes() test left out.
collectCell_alwaysPushes(card, i, markets) ==
    LET cell == Val(card.grid)[i]
    IN  IF NoSlug(cell) \/ i = FREE_SPACE_INDEX THEN markets
        ELSE
        LET withMarket ==
                IF MarketIndex(markets, cell.slug) = 0
                THEN Append(markets,
                            [slug |-> cell.slug, cardIds |-> <<>>, cardHandles |-> <<>>,
                             currentProb |-> Some(cell.prob), resolved |-> cell.resolved,
                             contractId |-> NULL])
                ELSE markets
            k == MarketIndex(withMarket, cell.slug)
        IN  [withMarket EXCEPT
                ![k].cardIds = Append(@, card.card_id),
                ![k].cardHandles = Append(@, card.user_handle)]

\* The body of the inner loop with no look-up of the slug: every cell adds
\* a market.
collectCell_noDedup(card, i, markets) ==
    LET cell == Val(card.grid)[i]
    IN  IF NoSlug(cell) \/ i = FREE_SPACE_INDEX THEN markets
        ELSE Append(markets,
                    [slug |-> cell.slug, cardIds |-> <<card.card_id>>,
                     cardHandles |-> <<card.user_handle>>,
                     currentProb |-> Some(cell.prob), resolved |-> cell.resolved,
                     contractId |-> NULL])

\* The body of the inner loop, for cell i of card.
collectCell(card, i, markets) ==
    LET cell == Val(card.grid)[i]
    IN  IF NoSlug(cell) \/ i = FREE_SPACE_INDEX THEN markets
        ELSE
        LET withMarket ==
                IF MarketIndex(markets, cell.slug) = 0
                THEN Append(markets,
                            [slug |-> cell.slug, cardIds |-> <<>>, cardHandles |-> <<>>,
                             currentProb |-> Some(cell.prob), resolved |-> cell.resolved,
                             contractId |-> NULL])
                ELSE markets
            k == MarketIndex(withMarket, cell.slug)
        IN  IF Includes(withMarket[k].cardIds, card.card_id) THEN withMarket
            ELSE [withMarket EXCEPT
                    ![k].cardIds = Append(@, card.card_id),
                    ![k].cardHandles = Append(@, card.user_handle)]

RECURSIVE collectCells(_, _, _)
\* for (let i = 0; i < card.grid.length; i++)
collectCells(card, i, markets) ==
    IF i \notin DOMAIN Val(card.grid) THEN markets
    ELSE \* the Map is updated before the next iteration starts
         CHOOSE result \in {collectCells(card, i + 1, next) :
                               next \in {collectCell(card, i, markets)}} : TRUE

RECURSIVE collectCards(_, _, _)
\* for (const card of cards)
collectCards(cs, n, markets) ==
    IF n > Len(cs) THEN markets
    ELSE IF cs[n].grid = NULL THEN collectCards(cs, n + 1, markets)
    ELSE CHOOSE result \in {collectCards(cs, n + 1, next) :
                               next \in {collectCells(cs[n], 0, markets)}} : TRUE

collectUniqueMarkets(cs) == collectCards(cs, 1, <<>>)

(***************************************************************************)
(* computeMarket24hStats (src/app.js 893-952).  timeline is NULL or        *)
(* Some(sequence of [time, prob]); the result is the stats object.         *)
(***************************************************************************)
SeqMax(s) == CHOOSE x \in {s[k] : k \in 1..Len(s)} : \A k \in 1..Len(s) : s[k] <= x

SeqMin(s) == CHOOSE x \in {s[k] : k \in 1..Len(s)} : \A k \in 1..Len(s) : s[k] >= x

\* const oneDayAgo = now - 24 * 60 * 60 * 1000;
oneDayAgo == now - DAY_MS

\* timeline.filter(t => t.time >= oneDayAgo)
entriesIn24hOf(t) == SelectSeq(t, LAMBDA e : e.time >= oneDayAgo)

\* timeline.filter(t => t.time < oneDayAgo)
beforeWindowOf(t) == SelectSeq(t, LAMBDA e : e.time < oneDayAgo)

\* The pick with the oldest entry before the window taken for the newest.
prob24hAgoOf_oldestBefore(t) ==
    IF Len(beforeWindowOf(t)) > 0 THEN beforeWindowOf(t)[1].prob
    ELSE IF Len(entriesIn24hOf(t)) = 0 THEN t[1].prob
    ELSE entriesIn24hOf(t)[1].prob

\* Find prob24hAgo - the probability closest to 24h ago
prob24hAgoOf(t) ==
    LET entriesIn24h == entriesIn24hOf(t)
        beforeWindow == beforeWindowOf(t)
    IN  IF Len(entriesIn24h) = 0
        THEN IF Len(beforeWindow) > 0
             THEN beforeWindow[Len(beforeWindow)].prob
             ELSE t[1].prob
        ELSE IF Len(beforeWindow) > 0
             THEN beforeWindow[Len(beforeWindow)].prob
             ELSE entriesIn24h[1].prob

\* The range with the current probability left out of a window that has
\* entries.
range24hOf_withoutCurrent(t, cur) ==
    LET entriesIn24h == entriesIn24hOf(t)
        probs24h == [k \in 1..Len(entriesIn24h) |-> entriesIn24h[k].prob]
    IN  IF Len(entriesIn24h) > 0
        THEN [high24h |-> SeqMax(probs24h), low24h |-> SeqMin(probs24h)]
        ELSE [high24h |-> cur, low24h |-> cur]

\* Compute high/low within 24h window (include currentProb)
range24hOf(t, cur) ==
    LET entriesIn24h == entriesIn24hOf(t)
        \* probs24h.push(currentProb)
        probs24h == [k \in 1..Len(entriesIn24h) |-> entriesIn24h[k].prob] \o <<cur>>
    IN  IF Len(entriesIn24h) > 0
        THEN [high24h |-> SeqMax(probs24h), low24h |-> SeqMin(probs24h)]
        ELSE [high24h |-> cur, low24h |-> cur]

\* computeMarket24hStats that takes an empty timeline for a quiet day: the
\* range collapses onto the current probability.
computeMarket24hStats_emptyAsQuiet(tl, cur) ==
    IF tl = NULL \/ Len(Val(tl)) = 0
    THEN [prob24hAgo |-> NULL, high24h |-> Some(cur), low24h |-> Some(cur),
          change24h |-> NULL, hasActivity |-> FALSE]
    ELSE [prob24hAgo |-> Some(prob24hAgoOf(Val(tl))),
          high24h |-> Some(range24hOf(Val(tl), cur).high24h),
          low24h |-> Some(range24hOf(Val(tl), cur).low24h),
          change24h |-> Some(cur - prob24hAgoOf(Val(tl))),
          hasActivity |-> Len(entriesIn24hOf(Val(tl))) > 0]

computeMarket24hStats(tl, cur) ==
    IF tl = NULL \/ Len(Val(tl)) = 0
    THEN [prob24hAgo |-> NULL, high24h |-> NULL, low24h |-> NULL,
          change24h |-> NULL, hasActivity |-> FALSE]
    ELSE [prob24hAgo |-> Some(prob24hAgoOf(Val(tl))),
          high24h |-> Some(range24hOf(Val(tl), cur).high24h),
          low24h |-> Some(range24hOf(Val(tl), cur).low24h),
          change24h |-> Some(cur - prob24hAgoOf(Val(tl))),
          hasActivity |-> Len(entriesIn24hOf(Val(tl))) > 0]

(***************************************************************************)
(* computeCardStats (src/app.js 293-335).  marketDataMap is a function     *)
(* from the slugs it holds to [currentProb, stats]: currentProb NULL or    *)
(* Some(probability), stats NULL or Some(stats object).                    *)
(***************************************************************************)
\* A difference of two Fx, as sign and magnitude.
FxDiff(a, b) ==
    CHOOSE diff \in {IF FxLess(x, y) THEN [neg |-> TRUE, mag |-> FxSub(y, x)]
                     ELSE [neg |-> FALSE, mag |-> FxSub(x, y)] : x \in {a}, y \in {b}} : TRUE

\* marketDataMap.get(slug)
MapGet(map, slug) == IF slug \in DOMAIN map THEN Some(map[slug]) ELSE NULL

\* marketData?.currentProb
currentProbOf(marketData) ==
    IF marketData = NULL THEN NULL ELSE Val(marketData).currentProb

\* marketData?.stats?.prob24hAgo, ?.high24h, ?.low24h
statOf(marketData, field) ==
    IF marketData = NULL THEN NULL
    ELSE IF Val(marketData).stats = NULL THEN NULL
    ELSE Val(Val(marketData).stats)[field]

\* Get live probs for all 25 cells
liveProbsOf(card, map) ==
    [i \in DOMAIN Val(card.grid) |->
        IF i = FREE_SPACE_INDEX THEN ProbSteps
        ELSE Coalesce(currentProbOf(MapGet(map, Val(card.grid)[i].slug)), Val(card.grid)[i].prob)]

\* The 24h-ago, high and low vectors without the fall-back to cell.prob
\* for a market entry that has no statistics: the live probability is
\* taken instead.
statProbsOf_fallsBackToLive(card, map, field) ==
    [i \in DOMAIN Val(card.grid) |->
        IF i = FREE_SPACE_INDEX THEN ProbSteps
        ELSE Coalesce(statOf(MapGet(map, Val(card.grid)[i].slug), field),
                      liveProbsOf(card, map)[i])]

\* Get 24h-ago probs / 24h high probs / 24h low probs for all 25 cells
statProbsOf(card, map, field) ==
    [i \in DOMAIN Val(card.grid) |->
        IF i = FREE_SPACE_INDEX THEN ProbSteps
        ELSE Coalesce(statOf(MapGet(map, Val(card.grid)[i].slug), field), Val(card.grid)[i].prob)]

\* The test that selects the cards left as they are, with the status not
\* looked at.
passesThrough_ignoresStatus(card) == card.grid = NULL

\* !card.grid || card.status !== 'active'
passesThrough(card) == card.grid = NULL \/ card.status # "active"

\* The function applied to each card by cards.map.
cardStatsOf(card, map) ==
    IF passesThrough(card)
    THEN [liveWinProb |-> card.win_probability, change24h |-> NULL,
          high24h |-> NULL, low24h |-> NULL] @@ card
    ELSE
    CHOOSE withStats \in
        { [liveWinProb |-> liveWinProb,
           change24h |-> Some(FxDiff(liveWinProb, winProb24hAgo)),
           high24h |-> Some(high24h), low24h |-> Some(low24h)] @@ card :
            liveWinProb \in {approximateWinProb(liveProbsOf(card, map))},
            winProb24hAgo \in {approximateWinProb(statProbsOf(card, map, "prob24hAgo"))},
            high24h \in {approximateWinProb(statProbsOf(card, map, "high24h"))},
            low24h \in {approximateWinProb(statProbsOf(card, map, "low24h"))} } : TRUE

computeCardStats(cs, map) == [n \in 1..Len(cs) |-> cardStatsOf(cs[n], map)]

(***************************************************************************)
(* The bet-history cache and fetchBetHistory (src/app.js 693-757).  The    *)
(* cache is a function from the contract ids it holds to [data,            *)
(* timestamp].  A response of the bets endpoint is [kind, bets]: kind      *)
(* "ok", "notOk" (response.ok false) or "throw" (fetch or json rejects);   *)
(* a bet is [createdTime, probAfter] with probAfter NULL or Some(p).       *)
(***************************************************************************)
\* 5 * 60 * 1000 milliseconds
CACHE_TTL == 5 * 60 * 1000

\* The freshness test with the boundary counted as fresh.
cacheHit_freshAtTtl(cache, contractId) ==
    /\ contractId \in DOMAIN cache
    /\ (now - cache[contractId].timestamp) <= CACHE_TTL

\* cached && (Date.now() - cached.timestamp) < 5 * 60 * 1000
cacheHit(cache, contractId) ==
    /\ contractId \in DOMAIN cache
    /\ (now - cache[contractId].timestamp) < CACHE_TTL

\* saveSparklineCache that stores the new entry alone: what a writer would
\* do that did not read the stored cache again before writing.
saveSparklineCache_withoutReading(cache, contractId, data) ==
    [c \in {contractId} |-> [data |-> data, timestamp |-> now]]

\* cache[contractId] = {data, timestamp: Date.now()}, stored again whole.
saveSparklineCache(cache, contractId, data) ==
    [c \in DOMAIN cache \cup {contractId} |->
        IF c = contractId THEN [data |-> data, timestamp |-> now] ELSE cache[c]]

\* bets.filter(bet => bet.probAfter != null).map(bet => ({time, prob}))
timelineOfBets(bets) ==
    LET kept == SelectSeq(bets, LAMBDA bet : bet.probAfter # NULL)
    IN  [k \in 1..Len(kept) |-> [time |-> kept[k].createdTime, prob |-> Val(kept[k].probAfter)]]

\* What fetchBetHistory returns once the response is there: NULL, or
\* Some(timeline).
betHistoryResult(response) ==
    IF response.kind = "ok" THEN Some(timelineOfBets(response.bets)) ELSE NULL

\* The cache after the response: written only when the fetch succeeded.
cacheAfterResponse(cache, contractId, response) ==
    IF response.kind = "ok"
    THEN saveSparklineCache(cache, contractId, timelineOfBets(response.bets))
    ELSE cache

(***************************************************************************)
(* The line probabilities of the card page (src/app.js 594-687).  A line   *)
(* probability is a fraction: the literals 1.0, 0.0 and 0.5 are 1/1, 0/1   *)
(* and 1/2, a stored or live probability k is k/ProbSteps.  A rendered     *)
(* line cell is [status, value]: its class and the probability its text    *)
(* shows as a percentage.                                                  *)
(***************************************************************************)
RECURSIVE calculateLineProbFrom(_, _, _)
calculateLineProbFrom(lineProbs, k, acc) ==
    IF k > Len(lineProbs) THEN acc
    ELSE calculateLineProbFrom(lineProbs, k + 1,
                               Ratio(acc.num * lineProbs[k].num, acc.den * lineProbs[k].den))

\* probs.reduce((acc, p) => acc * p, 1)
calculateLineProb(lineProbs) == calculateLineProbFrom(lineProbs, 1, Ratio(1, 1))

\* The function getLineStats maps over line.indices.
lineCellProb(grid, i) ==
    IF i = FREE_SPACE_INDEX THEN Ratio(1, 1)
    ELSE IF grid[i].resolved = "true" THEN Ratio(1, 1)
    ELSE IF grid[i].resolved = "false" THEN Ratio(0, 1)
    ELSE IF grid[i].prob # 0 THEN Ratio(grid[i].prob, ProbSteps)
    ELSE Ratio(1, 2)

getLineStats(line, grid) ==
    LET yesCount == Cardinality({k \in 1..Len(line.indices) :
                                    grid[line.indices[k]].resolved = "true"})
        noCount == Cardinality({k \in 1..Len(line.indices) :
                                   grid[line.indices[k]].resolved = "false"})
        lineProbs == [k \in 1..Len(line.indices) |-> lineCellProb(grid, line.indices[k])]
    IN  [prob |-> calculateLineProb(lineProbs),
         status |-> IF yesCount = 5 THEN "complete"
                    ELSE IF noCount > 0 THEN "blocked" ELSE "active",
         yesCount |-> yesCount]

\* The cell of a line: '100%' when complete, '0%' when blocked, else prob.
createLineProbCell(lineStats) ==
    [status |-> lineStats.status,
     value |-> IF lineStats.status = "complete" THEN Ratio(1, 1)
               ELSE IF lineStats.status = "blocked" THEN Ratio(0, 1)
               ELSE lineStats.prob]

\* The rows, the columns and the two diagonals, each through getLineStats.
renderInlineLineProbs(grid) ==
    [n \in 1..Len(LINES) |-> createLineProbCell(getLineStats(LINES[n], grid))]

\* LINES.forEach: a complete or blocked cell is left, another shows the
\* product of the live probabilities of its line.
updateLineProbs(cells, live) ==
    [n \in 1..Len(LINES) |->
        IF cells[n].status \in {"complete", "blocked"} THEN cells[n]
        ELSE [cells[n] EXCEPT !.value =
                 calculateLineProb([k \in 1..Len(LINES[n].indices) |->
                                       Ratio(live[LINES[n].indices[k]], ProbSteps)])]]

(***************************************************************************)
(* The estimator on its own: every vector of the family below is an input. *)
(***************************************************************************)
\* A vector that is b everywhere except v at cell i and w at cell j.
ProbVector(b, i, v, j, w) ==
    [c \in Cells |-> IF c = j THEN w ELSE IF c = i THEN v ELSE b]

InitWin ==
    /\ now = StartTime
    /\ IdleStats /\ IdleCards /\ IdleCollect /\ IdleCardStats /\ IdleCache /\ IdlePage /\ IdleBaseline /\ IdleSort /\ IdleLines /\ IdleDouble
    /\ \E b \in Probs, v \in Probs, w \in Probs :
         \E i \in Cells : \E j \in i..24 :
            probs = ProbVector(b, i, v, j, w)
    /\ winProb = NULL

CallApproximateWinProb ==
    /\ winProb = NULL
    /\ winProb' = Some(approximateWinProb(probs))
    /\ UNCHANGED <<lineVars, doubleVars, sortVars, now, probs, statsVars, cards, collectVars, cardStatsVars, cacheVars, pageVars, baselineVars>>

NextWin == CallApproximateWinProb

SpecWin == InitWin /\ [][NextWin]_vars

(***************************************************************************)
(* The closed form of the estimate, from the geometry of the 5x5 grid.     *)
(***************************************************************************)
RowLines == {{5 * r + c : c \in 0..4} : r \in 0..4}

ColLines == {{5 * r + c : r \in 0..4} : c \in 0..4}

DiagLines == {{6 * k : k \in 0..4}, {4 * k + 4 : k \in 0..4}}

TwelveLines == RowLines \cup ColLines \cup DiagLines

RECURSIVE CellProduct(_, _)
\* The product of p over the cells of S, over ProbSteps^|S|.
CellProduct(p, S) ==
    IF S = {} THEN 1
    ELSE LET c == CHOOSE x \in S : TRUE
         IN  p[c] * CellProduct(p, S \ {c})

RECURSIVE FailProduct(_, _)
\* The product over the lines of Ls of (1 - the line's product).
FailProduct(p, Ls) ==
    IF Ls = {} THEN FxOne
    ELSE LET l == CHOOSE x \in Ls : TRUE
         IN  FxMulFrac(FailProduct(p, Ls \ {l}), LineUnit - CellProduct(p, l))

\* C1: approximateWinProb returns 1 minus the product, over the 5 rows, 5
\* columns and 2 diagonals, of (1 - the product of the line's five cell
\* probabilities): each of the 12 lines counts once, with no correction
\* for the cells that lines share.
C1_WinProbIsLineFormula ==
    winProb # NULL =>
        /\ Cardinality(TwelveLines) = 12
        /\ Val(winProb) = FxSub(FxOne, FailProduct(probs, TwelveLines))

\* C1 witness: the estimator has run on a vector with a fractional cell and
\* returned a value strictly between 0 and 1.
C1_Witness ==
    /\ winProb # NULL
    /\ \E c \in Cells : probs[c] \notin {0, ProbSteps}
    /\ FxLess(FxZero, Val(winProb))
    /\ FxLess(Val(winProb), FxOne)


(***************************************************************************)
(* The 24-hour statistics on their own: every timeline of at most          *)
(* MaxTimeline entries, in any order, with times on both sides of the      *)
(* window start, is an input.                                              *)
(***************************************************************************)
MaxTimeline == 3

\* Entry times around the start of the window, now - 24h.
EntryTimes == {StartTime - DAY_MS + d : d \in {-2, -1, 0, 1}}

Entries == [time : EntryTimes, prob : Probs]

Timelines == UNION {[1..n -> Entries] : n \in 0..MaxTimeline}

InitStats ==
    /\ now = StartTime
    /\ IdleWin /\ IdleCards /\ IdleCollect /\ IdleCardStats /\ IdleCache /\ IdlePage /\ IdleBaseline /\ IdleSort /\ IdleLines /\ IdleDouble
    /\ timeline \in {NULL} \cup {Some(t) : t \in Timelines}
    /\ currentProb \in Probs
    /\ stats = NULL

CallComputeMarket24hStats ==
    /\ stats = NULL
    /\ stats' = Some(computeMarket24hStats(timeline, currentProb))
    /\ UNCHANGED <<lineVars, doubleVars, sortVars, now, winVars, timeline, currentProb, cards, collectVars, cardStatsVars, cacheVars, pageVars, baselineVars>>

NextStats == CallComputeMarket24hStats

SpecStats == InitStats /\ [][NextStats]_vars

IsAscending(t) == \A j, k \in 1..Len(t) : j < k => t[j].time <= t[k].time

\* The positions of t before the window and in it.
Before(t) == {k \in 1..Len(t) : t[k].time < now - DAY_MS}

Within(t) == {k \in 1..Len(t) : t[k].time >= now - DAY_MS}

\* The latest entry among the positions S: the greatest time, and among
\* equal times the one listed last.
Latest(t, S) ==
    CHOOSE k \in S : \A j \in S : t[j].time < t[k].time \/ (t[j].time = t[k].time /\ j <= k)

\* The earliest entry among the positions S: the least time, and among
\* equal times the one listed first.
Earliest(t, S) ==
    CHOOSE k \in S : \A j \in S : t[j].time > t[k].time \/ (t[j].time = t[k].time /\ j >= k)

\* The probability the three tiers name as that of 24 hours ago.
Prob24hAgoOf(t) ==
    IF Before(t) # {} THEN t[Latest(t, Before(t))].prob
    ELSE IF Within(t) # {} THEN t[Earliest(t, Within(t))].prob
    ELSE t[1].prob

\* C2: for a non-empty ascending timeline, prob24hAgo is the probability
\* of the latest entry before now - 24h if there is one, else of the
\* earliest entry at or after now - 24h, else of the first entry, and
\* change24h is currentProb minus that prob24hAgo.
C2_Prob24hAgoTiers ==
    (stats # NULL /\ timeline # NULL /\ Len(Val(timeline)) > 0 /\ IsAscending(Val(timeline))) =>
        /\ Val(stats).prob24hAgo = Some(Prob24hAgoOf(Val(timeline)))
        /\ Val(stats).change24h = Some(currentProb - Prob24hAgoOf(Val(timeline)))

\* C2 witness: statistics of an ascending timeline with two entries before
\* the window, of different probabilities, and one entry in it, with a
\* non-zero change.
C2_Witness ==
    /\ stats # NULL /\ timeline # NULL
    /\ IsAscending(Val(timeline))
    /\ Cardinality(Before(Val(timeline))) = 2
    /\ Val(timeline)[1].prob # Val(timeline)[2].prob
    /\ Val(timeline)[1].time < Val(timeline)[2].time
    /\ Within(Val(timeline)) # {}
    /\ Val(stats).change24h # Some(0)

\* The greatest and the least element of a non-empty set of numbers.
SetMax(S) == CHOOSE x \in S : \A y \in S : y <= x

SetMin(S) == CHOOSE x \in S : \A y \in S : y >= x

\* C3: for a non-empty timeline, high24h and low24h are the maximum and
\* the minimum over the probabilities of the entries with time >= now-24h
\* together with currentProb (both currentProb when no entry is in the
\* window), and hasActivity is true exactly when some entry is in the window.
C3_HighLowOverWindow ==
    (stats # NULL /\ timeline # NULL /\ Len(Val(timeline)) > 0) =>
        LET t == Val(timeline)
            range == {t[k].prob : k \in Within(t)} \cup {currentProb}
        IN  /\ Val(stats).high24h = Some(SetMax(range))
            /\ Val(stats).low24h = Some(SetMin(range))
            /\ Val(stats).hasActivity = (Within(t) # {})
            /\ Within(t) = {} =>
                   Val(stats).high24h = Some(currentProb) /\ Val(stats).low24h = Some(currentProb)

\* C3 witness: statistics whose high is currentProb, above every entry of
\* the window, and whose low comes from an entry of the window.
C3_Witness ==
    /\ stats # NULL /\ timeline # NULL
    /\ Within(Val(timeline)) # {}
    /\ Before(Val(timeline)) # {}
    /\ \A k \in Within(Val(timeline)) : Val(timeline)[k].prob < currentProb
    /\ Val(stats).high24h = Some(currentProb)
    /\ Val(stats).low24h # Some(currentProb)

(***************************************************************************)
(* collectUniqueMarkets on its own.  The cards of the family carry a slug  *)
(* (or none) in the cells 0 and 24 and in the free cell, and none          *)
(* elsewhere; a card may lack its grid; the first and the third card have  *)
(* the same owner.                                                         *)
(***************************************************************************)
MaxCards == 2

\* The slugs of the family are 1..MaxSlug.
MaxSlug == 2

CardIds == <<"card-1", "card-2", "card-3", "card-4">>

Handles == <<"ann", "bob", "ann", "cy">>

\* A grid with slug x in cell 0, z in cell 24, y in the free cell.
SparseGrid(x, y, z) ==
    [c \in Cells |->
        IF c = 0 THEN Cell(x, 1)
        ELSE IF c = 24 THEN Cell(z, 1)
        ELSE IF c = FREE_SPACE_INDEX THEN Cell(y, ProbSteps)
        ELSE Cell(0, 0)]

SparseGrids ==
    {NULL} \cup {Some(SparseGrid(x, y, z)) : x \in 0..MaxSlug, y \in {0, MaxSlug}, z \in 0..MaxSlug}

\* The n-th card of a feed, with grid g.
SparseCard(n, g) ==
    [card_id |-> CardIds[n], user_handle |-> Handles[n], status |-> "active",
     grid |-> g, win_probability |-> FxZero]

InitCollect ==
    /\ now = StartTime
    /\ IdleWin /\ IdleStats /\ IdleCardStats /\ IdleCache /\ IdlePage /\ IdleBaseline /\ IdleSort /\ IdleLines /\ IdleDouble
    /\ \E n \in 0..MaxCards : \E gs \in [1..n -> SparseGrids] :
          cards = [k \in 1..n |-> SparseCard(k, gs[k])]
    /\ marketsMap = NULL

CallCollectUniqueMarkets ==
    /\ marketsMap = NULL
    /\ marketsMap' = Some(collectUniqueMarkets(cards))
    /\ UNCHANGED <<lineVars, doubleVars, sortVars, now, winVars, statsVars, cards, cardStatsVars, cacheVars, pageVars, baselineVars>>

NextCollect == CallCollectUniqueMarkets

SpecCollect == InitCollect /\ [][NextCollect]_vars

\* The positions, in the feed, of the cards that hold slug in a non-free cell.
Referencing(cs, slug) ==
    {n \in 1..Len(cs) :
        /\ cs[n].grid # NULL
        /\ \E c \in Cells \ {FREE_SPACE_INDEX} : Val(cs[n].grid)[c].slug = slug}

\* The slugs found in the non-free cells of the cards.
SlugsOf(cs) ==
    {Val(cs[n].grid)[c].slug :
        n \in {k \in 1..Len(cs) : cs[k].grid # NULL}, c \in Cells \ {FREE_SPACE_INDEX}} \ {0}

\* C4: collectUniqueMarkets returns exactly one entry per distinct slug of
\* a non-free cell; the entry's cardIds holds every card that references
\* the slug exactly once, in the order of the cards in the feed, and
\* cardHandles holds, position by position, the owners of those cards.
C4_OneEntryPerSlug ==
    marketsMap # NULL =>
        LET ms == Val(marketsMap)
        IN  /\ {ms[k].slug : k \in 1..Len(ms)} = SlugsOf(cards)
            /\ \A j, k \in 1..Len(ms) : ms[j].slug = ms[k].slug => j = k
            /\ \A k \in 1..Len(ms) :
                  LET ids == ms[k].cardIds
                      refs == Referencing(cards, ms[k].slug)
                  IN  /\ {ids[i] : i \in 1..Len(ids)} = {cards[n].card_id : n \in refs}
                      /\ Len(ids) = Cardinality(refs)
                      /\ \A i, j \in 1..Len(ids) : i < j =>
                            \E m, n \in refs :
                               m < n /\ cards[m].card_id = ids[i] /\ cards[n].card_id = ids[j]
                      /\ Len(ms[k].cardHandles) = Len(ids)
                      /\ \A i \in 1..Len(ids) :
                            \E n \in refs :
                               cards[n].card_id = ids[i] /\ cards[n].user_handle = ms[k].cardHandles[i]

\* C4 witness: two cards share a slug, the first of them holds it in two
\* cells, and the free cell of a card holds a slug no other cell holds.
C4_Witness ==
    /\ marketsMap # NULL
    /\ Len(cards) >= 2
    /\ cards[1].grid # NULL /\ cards[2].grid # NULL
    /\ Val(cards[1].grid)[0].slug = 1 /\ Val(cards[1].grid)[24].slug = 1
    /\ Val(cards[2].grid)[24].slug = 1 /\ Val(cards[2].grid)[0].slug = 0
    /\ Val(cards[1].grid)[FREE_SPACE_INDEX].slug = MaxSlug
    /\ Len(Val(marketsMap)) = 1
    /\ Val(marketsMap)[1].cardIds = <<"card-1", "card-2">>

(***************************************************************************)
(* computeCardStats on its own.  The feed has two cards, the first with    *)
(* any grid of the family or none; the first row of a grid holds market 1  *)
(* (stored probability x), market 2 and three cells of a market that has   *)
(* no entry in the map; the map holds market 1 with any entry of the       *)
(* family, and may hold market 2.                                          *)
(***************************************************************************)
DenseGrid(x) ==
    [c \in Cells |->
        IF c = 0 THEN Cell(1, x)
        ELSE IF c = 1 THEN Cell(2, 1)
        ELSE IF c \in 2..4 THEN Cell(MaxSlug + 1, ProbSteps)
        ELSE IF c = FREE_SPACE_INDEX THEN Cell(0, 0)
        ELSE Cell(MaxSlug + 1, 1)]

DenseGrids == {NULL} \cup {Some(DenseGrid(x)) : x \in Probs}

Statuses == {"active", "resolved_yes"}

DenseCard(n, status, g) ==
    [card_id |-> CardIds[n], user_handle |-> Handles[n], status |-> status,
     grid |-> g, win_probability |-> FxOfProb(1)]

NoStats ==
    [prob24hAgo |-> NULL, high24h |-> NULL, low24h |-> NULL,
     change24h |-> NULL, hasActivity |-> FALSE]

\* No stats object, one without values, and those with any 24h-ago value
\* and either the widest range or none.
StatsObjects ==
    {NULL, Some(NoStats)} \cup
    {Some([prob24hAgo |-> Some(a), high24h |-> Some(hl[1]), low24h |-> Some(hl[2]),
           change24h |-> Some(0), hasActivity |-> TRUE]) :
        a \in Probs, hl \in {<<ProbSteps, 0>>, <<1, 1>>}}

MarketData == [currentProb : {NULL} \cup {Some(p) : p \in Probs}, stats : StatsObjects]

\* The entry of market 2 when the map holds one.
OtherMarketData ==
    [currentProb |-> Some(ProbSteps),
     stats |-> Some([prob24hAgo |-> Some(0), high24h |-> Some(ProbSteps), low24h |-> Some(0),
                     change24h |-> Some(ProbSteps), hasActivity |-> TRUE])]

MarketDataMaps ==
    {<<>>} \cup {[s \in {1} |-> d] : d \in MarketData}
           \cup {[s \in {1, 2} |-> IF s = 1 THEN d ELSE OtherMarketData] : d \in MarketData}

InitCardStats ==
    /\ now = StartTime
    /\ IdleWin /\ IdleStats /\ IdleCollect /\ IdleCache /\ IdlePage /\ IdleBaseline /\ IdleSort /\ IdleLines /\ IdleDouble
    /\ \E s1 \in Statuses, s2 \in Statuses, g1 \in DenseGrids :
          cards = <<DenseCard(1, s1, g1), DenseCard(2, s2, Some(DenseGrid(1)))>>
    /\ marketDataMap \in MarketDataMaps
    /\ cardsWithStats = NULL

CallComputeCardStats ==
    /\ cardsWithStats = NULL
    /\ cardsWithStats' = Some(computeCardStats(cards, marketDataMap))
    /\ UNCHANGED <<lineVars, doubleVars, sortVars, now, winVars, statsVars, cards, collectVars, marketDataMap, cacheVars, pageVars, baselineVars>>

NextCardStats == CallComputeCardStats

SpecCardStats == InitCardStats /\ [][NextCardStats]_vars

\* The value the market data map gives for a cell: the named field of the
\* slug's entry (of its stats object unless the field is currentProb), or
\* the cell's stored probability when the slug has no entry, the entry no
\* stats object, or the field no value.
CellValue(cell, map, field) ==
    LET present == cell.slug \in DOMAIN map
        value == IF field = "currentProb" THEN map[cell.slug].currentProb
                 ELSE IF map[cell.slug].stats = NULL THEN NULL
                 ELSE Val(map[cell.slug].stats)[field]
    IN  IF present /\ value # NULL THEN Val(value) ELSE cell.prob

\* The vector of a card for a field; the free cell counts as 1.
VectorOf(card, map, field) ==
    [c \in Cells |->
        IF c = FREE_SPACE_INDEX THEN ProbSteps
        ELSE CellValue(Val(card.grid)[c], map, field)]

\* The estimate of the closed form of C1.
LineFormula(p) == FxSub(FxOne, FailProduct(p, TwelveLines))

\* C5: for an active card with a grid, the live, 24h-ago, high and low
\* vectors are built cell by cell from the map (currentProb,
\* stats.prob24hAgo, stats.high24h, stats.low24h), with the stored
\* cell.prob where the slug has no entry or the value is null; each vector
\* goes through the estimator, and change24h is liveWinProb minus the
\* estimate of the 24h-ago vector.
C5_CardStatsFromMap ==
    cardsWithStats # NULL =>
        \A n \in 1..Len(cards) :
            (cards[n].status = "active" /\ cards[n].grid # NULL) =>
                LET out == Val(cardsWithStats)[n]
                    live == LineFormula(VectorOf(cards[n], marketDataMap, "currentProb"))
                    ago == LineFormula(VectorOf(cards[n], marketDataMap, "prob24hAgo"))
                IN  /\ out.liveWinProb = live
                    /\ out.high24h = Some(LineFormula(VectorOf(cards[n], marketDataMap, "high24h")))
                    /\ out.low24h = Some(LineFormula(VectorOf(cards[n], marketDataMap, "low24h")))
                    /\ out.change24h # NULL
                    /\ IF Val(out.change24h).neg
                       THEN FxSub(ago, Val(out.change24h).mag) = live
                       ELSE FxSub(live, Val(out.change24h).mag) = ago

\* C5 witness: an active card whose market 1 has a live probability but a
\* stats object without values, so that the 24h-ago vector falls back to
\* the stored cell.prob, and whose win probability has fallen.
C5_Witness ==
    /\ cardsWithStats # NULL
    /\ cards[1].status = "active" /\ cards[1].grid # NULL
    /\ 1 \in DOMAIN marketDataMap
    /\ marketDataMap[1].currentProb = Some(1)
    /\ marketDataMap[1].stats = Some(NoStats)
    /\ Val(cards[1].grid)[0].prob = ProbSteps
    /\ Val(Val(cardsWithStats)[1].change24h).neg

\* C6: a card whose status is not 'active' or whose grid is missing gets
\* liveWinProb = its stored win_probability and null change24h, high24h
\* and low24h, whatever the map holds; every other card gets the live
\* derivation (non-null statistics).
C6_OnlyActiveCardsDerived ==
    cardsWithStats # NULL =>
        \A n \in 1..Len(cards) :
            LET out == Val(cardsWithStats)[n]
            IN  IF cards[n].status = "active" /\ cards[n].grid # NULL
                THEN out.change24h # NULL /\ out.high24h # NULL /\ out.low24h # NULL
                ELSE /\ out.liveWinProb = cards[n].win_probability
                     /\ out.change24h = NULL /\ out.high24h = NULL /\ out.low24h = NULL

\* C6 witness: a resolved card with a grid, beside an active card whose
\* live win probability differs from the stored one, with a map that
\* holds both markets.
C6_Witness ==
    /\ cardsWithStats # NULL
    /\ cards[1].status = "resolved_yes" /\ cards[1].grid # NULL
    /\ cards[2].status = "active" /\ cards[2].grid # NULL
    /\ DOMAIN marketDataMap = {1, 2}
    /\ Val(cardsWithStats)[1].liveWinProb = cards[1].win_probability
    /\ Val(cardsWithStats)[2].liveWinProb # cards[2].win_probability

(***************************************************************************)
(* fetchBetHistory over time: calls for two contracts (as the popup of the *)
(* card page or a reload makes them), their responses, and the clock.      *)
(***************************************************************************)
\* The calls of one run.
MaxCalls == 3

\* The clock runs for this many cache lifetimes.
MaxLifetimes == 2

Contracts == {101, 102}

\* The instants of the clock: each multiple of the TTL after the start,
\* and the millisecond before and after it.
ClockTimes ==
    {StartTime + k * CACHE_TTL + d : k \in 0..MaxLifetimes, d \in {-1, 0, 1}} \ {StartTime - 1}

Bet(t, p) == [createdTime |-> t, probAfter |-> p]

\* The responses of the bets endpoint: two failures, and a page of bets of
\* which one carries no probAfter.
BetResponses ==
    { [kind |-> "notOk", bets |-> <<>>],
      [kind |-> "throw", bets |-> <<>>],
      [kind |-> "ok", bets |-> <<Bet(StartTime - DAY_MS - 1, Some(0)), Bet(StartTime - 2, NULL),
                                 Bet(StartTime - 1, Some(ProbSteps))>>] }

InitCache ==
    /\ now = StartTime
    /\ IdleWin /\ IdleStats /\ IdleCards /\ IdleCollect /\ IdleCardStats /\ IdlePage /\ IdleBaseline /\ IdleSort /\ IdleLines /\ IdleDouble
    /\ sparklineCache = <<>>
    /\ betCalls = <<>>
    /\ nCalls = 0
    /\ lastCall = NULL

\* Date.now() moves on.
Tick ==
    /\ \E t \in ClockTimes : t > now /\ now' = t
    /\ UNCHANGED <<lineVars, doubleVars, sortVars, winVars, statsVars, cards, collectVars, cardStatsVars, cacheVars, pageVars, baselineVars>>

\* fetchBetHistory(contractId), up to its return from the cache or its
\* await of the request.
CallFetchBetHistory(contractId) ==
    /\ nCalls < MaxCalls
    /\ nCalls' = nCalls + 1
    /\ lastCall' = Some([contractId |-> contractId, at |-> now,
                          cached |-> MapGet(sparklineCache, contractId),
                          served |-> IF cacheHit(sparklineCache, contractId)
                                     THEN "cache" ELSE "network"])
    /\ betCalls' = IF cacheHit(sparklineCache, contractId) THEN betCalls
                   ELSE Append(betCalls, contractId)
    /\ UNCHANGED <<lineVars, doubleVars, sortVars, now, winVars, statsVars, cards, collectVars, cardStatsVars, sparklineCache, pageVars, baselineVars>>

\* The response of the k-th awaited request arrives.
BetHistoryResponse(k, response) ==
    /\ k \in 1..Len(betCalls)
    /\ sparklineCache' = cacheAfterResponse(sparklineCache, betCalls[k], response)
    /\ betCalls' = [j \in 1..(Len(betCalls) - 1) |-> IF j < k THEN betCalls[j] ELSE betCalls[j + 1]]
    /\ UNCHANGED <<lineVars, doubleVars, sortVars, now, winVars, statsVars, cards, collectVars, cardStatsVars, nCalls, lastCall, pageVars, baselineVars>>

NextCache ==
    \/ Tick
    \/ \E c \in Contracts : CallFetchBetHistory(c)
    \/ \E k \in 1..MaxCalls, r \in BetResponses : BetHistoryResponse(k, r)

SpecCache == InitCache /\ [][NextCache]_vars

\* C7: a call is served from the cache, with no request issued, exactly
\* when the contract has an entry whose age at the call is strictly less
\* than 5 minutes; any other call awaits a new request; and a call served
\* from the cache leaves the cache, the entry's timestamp included, as it
\* was.
C7_CacheServedWhileYoung ==
    [][nCalls' = nCalls + 1 =>
         LET call == Val(lastCall')
             young == /\ call.cached # NULL
                      /\ call.at - Val(call.cached).timestamp < 5 * 60 * 1000
         IN  /\ (call.served = "cache") <=> young
             /\ young => betCalls' = betCalls /\ sparklineCache' = sparklineCache
             /\ ~young => Len(betCalls') = Len(betCalls) + 1
                          /\ betCalls'[Len(betCalls')] = call.contractId]_vars

\* C7 witness: a call at the very age of 5 minutes, sent to the network.
C7_Witness ==
    /\ lastCall # NULL
    /\ Val(lastCall).cached # NULL
    /\ Val(lastCall).at - Val(Val(lastCall).cached).timestamp = CACHE_TTL
    /\ Val(lastCall).served = "network"
    /\ Len(betCalls) = 1

(***************************************************************************)
(* The two page loads.  The index page runs displayMarketActivity          *)
(* (src/app.js 1008-1102) over the cards of the feed; the card page runs   *)
(* fetchLivePrices (src/app.js 1329-1383) over the grid of one card.  A    *)
(* request in flight is [phase, pos, batch]: phase "live" (the market      *)
(* endpoint) or "stats" (the bets endpoint), pos the position of its       *)
(* market in the list the batch was sliced from (on the card page, the     *)
(* cell), batch the value of the loop variable when it was sent.  A        *)
(* response of the market endpoint is [kind, data], kind as for the bets   *)
(* endpoint, data the body [probability, prob, id, isResolved,             *)
(* resolution].  An object is a function of its field names, so a spread   *)
(* {...market, f: v} is [f |-> v] @@ market.                               *)
(***************************************************************************)
\* const BATCH_SIZE = 10;
BATCH_SIZE == 10

\* obj.name, undefined (NULL) when the object has no such property.
Field(obj, name) == IF name \in DOMAIN obj THEN obj[name] ELSE NULL

\* x || y over numbers that may be undefined: 0 and undefined are falsy.
JsOr(x, y) == IF x # NULL /\ Val(x) # 0 THEN x ELSE y

\* Math.abs
Abs(x) == IF x < 0 THEN -x ELSE x

Min(a, b) == IF a < b THEN a ELSE b

\* The positions of list.slice(i) in list.
batchOf_toTheEnd(list, i) == (i + 1)..Len(list)

\* The positions of list.slice(i, i + BATCH_SIZE) in list.
batchOf(list, i) == (i + 1)..Min(i + BATCH_SIZE, Len(list))

\* The value of a promise of the live phase with a failure that clears the
\* probability of the market.
liveResult_failureClearsProb(market, response) ==
    IF response.kind # "ok" THEN [liveData |-> NULL, currentProb |-> NULL] @@ market
    ELSE [currentProb |-> JsOr(JsOr(response.data.probability, response.data.prob),
                               market.currentProb),
          contractId |-> Some(response.data.id),
          isResolved |-> response.data.isResolved,
          resolution |-> response.data.resolution,
          liveData |-> Some(response.data)] @@ market

\* The value of a promise of the live phase (src/app.js 1030-1047).
liveResult(market, response) ==
    IF response.kind # "ok" THEN [liveData |-> NULL] @@ market
    ELSE [currentProb |-> JsOr(JsOr(response.data.probability, response.data.prob),
                               market.currentProb),
          contractId |-> Some(response.data.id),
          isResolved |-> response.data.isResolved,
          resolution |-> response.data.resolution,
          liveData |-> Some(response.data)] @@ market

\* !market.contractId
NoContractId(market) == market.contractId = NULL

\* The promise of the stats phase awaits a request: the market has a
\* contract id and fetchBetHistory finds no fresh entry in the cache.
awaitsBets(market, cache) ==
    ~NoContractId(market) /\ ~cacheHit(cache, Val(market.contractId))

\* The value of a promise of the stats phase that awaits no request
\* (src/app.js 1063-1068, fetchBetHistory served from the cache).
statsResultAtOnce(market, cache) ==
    IF NoContractId(market) THEN [stats |-> NULL] @@ market
    ELSE [stats |-> Some(computeMarket24hStats(Some(cache[Val(market.contractId)].data),
                                               Val(market.currentProb)))] @@ market

\* The value of a promise of the stats phase once its request is answered.
statsResult(market, response) ==
    [stats |-> Some(computeMarket24hStats(betHistoryResult(response),
                                          Val(market.currentProb)))] @@ market

\* a.isResolved as a condition
IsResolved(market) ==
    Field(market, "isResolved") # NULL /\ Val(Field(market, "isResolved"))

\* a.stats?.change24h ?? 0
changeOf(market) ==
    IF Field(market, "stats") = NULL THEN 0
    ELSE Coalesce(Val(Field(market, "stats")).change24h, 0)

\* The comparator of the sort at the end of displayMarketActivity.
activityCompare(a, b) ==
    IF IsResolved(a) /\ ~IsResolved(b) THEN -1
    ELSE IF ~IsResolved(a) /\ IsResolved(b) THEN 1
    ELSE Abs(changeOf(b)) - Abs(changeOf(a))

\* One insertion of the stable sort: x goes behind the elements it is not
\* to precede.
sortInsert(sorted, x) ==
    LET k == Cardinality({j \in 1..Len(sorted) : activityCompare(x, sorted[j]) >= 0})
    IN  SubSeq(sorted, 1, k) \o <<x>> \o SubSeq(sorted, k + 1, Len(sorted))

RECURSIVE sortFrom(_, _, _)
sortFrom(list, n, sorted) ==
    IF n > Len(list) THEN sorted
    ELSE CHOOSE result \in {sortFrom(list, n + 1, next) :
                               next \in {sortInsert(sorted, list[n])}} : TRUE

\* marketsWithStats.sort((a, b) => ...): Array.prototype.sort is stable.
sortByActivity(list) == sortFrom(list, 1, <<>>)

\* marketsWithStats.forEach(m => marketDataMap.set(m.slug, {currentProb, stats}))
marketDataMapOf(list) ==
    [slug \in {list[k].slug : k \in 1..Len(list)} |->
        LET last == CHOOSE k \in 1..Len(list) :
                        /\ list[k].slug = slug
                        /\ \A j \in (k + 1)..Len(list) : list[j].slug # slug
        IN  [currentProb |-> list[last].currentProb, stats |-> list[last].stats]]

\* counts with one more request for each key of keys, a bag of keys given
\* as a sequence.
Counted(counts, keys) ==
    [key \in DOMAIN counts \cup {keys[k] : k \in DOMAIN keys} |->
        (IF key \in DOMAIN counts THEN counts[key] ELSE 0)
        + Cardinality({k \in DOMAIN keys : keys[k] = key})]

\* results.forEach((market, i) => ...) of fetchLivePrices: the live vector.
cardLiveProbs(card, res) ==
    [i \in Cells |->
        IF res[i] # NULL
        THEN Val(JsOr(JsOr(Val(res[i]).probability, Val(res[i]).prob),
                      Some(Val(card.grid)[i].prob)))
        ELSE Val(card.grid)[i].prob]

\* card.grid[i].contract_id = market.id, for the cells that got a market.
cardWithContractIds(card, res) ==
    [card EXCEPT !.grid = Some([i \in Cells |->
        IF res[i] # NULL THEN [contract_id |-> Val(res[i]).id] @@ Val(card.grid)[i]
        ELSE Val(card.grid)[i]])]

(***************************************************************************)
(* The feed and the API of the page loads.  The feed is empty or holds two *)
(* cards that share one market; the first card may hold its first market   *)
(* a second time.  Together they hold MaxMarkets markets, one more than a  *)
(* batch.  Two markets are flaky: the shared one, which is in the first    *)
(* batch, and the one collected last, which is in the second; their        *)
(* requests may fail or bring any probability.  Every other request        *)
(* succeeds with a body fixed by the slug.                                 *)
(***************************************************************************)
\* The distinct markets of the feed.
MaxMarkets == 11

\* The number of a cell among the cells that are not the free space.
Ordinal(c) == IF c < FREE_SPACE_INDEX THEN c + 1 ELSE c

SharedSlug == MaxMarkets \div 2 + 1

FlakySlugs == {SharedSlug, SharedSlug + 1}

\* Markets 1..SharedSlug, and market 1 once more in cell 24 if repeats.
FirstGrid(repeats) ==
    [c \in Cells |->
        IF c = FREE_SPACE_INDEX THEN Cell(0, ProbSteps)
        ELSE IF Ordinal(c) <= SharedSlug THEN Cell(Ordinal(c), 1)
        ELSE IF repeats /\ c = 24 THEN Cell(1, ProbSteps)
        ELSE Cell(0, 1)]

\* Markets MaxMarkets down to SharedSlug.
SecondGrid ==
    [c \in Cells |->
        IF c = FREE_SPACE_INDEX THEN Cell(0, ProbSteps)
        ELSE IF Ordinal(c) <= MaxMarkets - SharedSlug + 1
             THEN Cell(MaxMarkets - Ordinal(c) + 1, ProbSteps)
        ELSE Cell(0, 1)]

Feed(repeats) ==
    <<DenseCard(1, "active", Some(FirstGrid(repeats))), DenseCard(2, "active", Some(SecondGrid))>>

\* What the card file may hold in the free cell: no slug and probability
\* 1, no slug and a lower probability, or the slug of a market.
FreeCells == {Cell(0, ProbSteps), Cell(0, 1), Cell(SharedSlug, ProbSteps)}

withFreeCell(card, cell) ==
    [card EXCEPT !.grid = Some([Val(card.grid) EXCEPT ![FREE_SPACE_INDEX] = cell])]

\* The id the API gives the market of a slug.
ContractOf(slug) == 100 + slug

MarketBody(slug, probability, prob) ==
    [probability |-> probability, prob |-> prob, id |-> ContractOf(slug),
     isResolved |-> Some(slug = 2), resolution |-> IF slug = 2 THEN Some("YES") ELSE NULL]

Responded(kind, data) == [kind |-> kind, data |-> data]

\* What a request for /slug/<slug> may receive; slug 0 is a cell with no
\* slug, whose request finds no market.
LiveResponses(slug) ==
    IF slug = 0 THEN {Responded("notOk", NULL)}
    ELSE IF slug \in FlakySlugs
    THEN {Responded("notOk", NULL), Responded("throw", NULL)}
         \cup {Responded("ok", MarketBody(slug, Some(p), NULL)) : p \in Probs}
         \cup {Responded("ok", MarketBody(slug, NULL, Some(ProbSteps)))}
    ELSE {Responded("ok", MarketBody(slug, Some(1 + (slug % ProbSteps)), NULL))}

\* What a request for the bets of a contract may receive.
BetsResponses(contractId) ==
    IF \E slug \in FlakySlugs : contractId = ContractOf(slug) THEN BetResponses
    ELSE {[kind |-> "ok",
           bets |-> <<Bet(StartTime - DAY_MS - 1, Some(contractId % (ProbSteps + 1))),
                      Bet(StartTime - 1, Some(1))>>]}

\* The cache a load finds: a fresh entry for market 1 and one of exactly
\* the age of 5 minutes for market 3.
StoredCache ==
    [c \in {ContractOf(1), ContractOf(3)} |->
        IF c = ContractOf(1)
        THEN [data |-> <<[time |-> StartTime - DAY_MS - 2, prob |-> ProbSteps]>>,
              timestamp |-> StartTime - 1]
        ELSE [data |-> <<[time |-> StartTime - 2, prob |-> 0]>>,
              timestamp |-> StartTime - CACHE_TTL]]

pureVars == <<winVars, statsVars, collectVars>>

callVars == <<betCalls, nCalls, lastCall>>

Init ==
    /\ now = StartTime
    /\ IdleWin /\ IdleStats /\ IdleCollect /\ IdleCalls /\ IdleCardStats /\ IdleLoad /\ IdleBaseline /\ IdleSort /\ IdleDouble
    /\ sparklineCache = StoredCache
    /\ \E repeats \in BOOLEAN :
          \/ page = "index" /\ cards \in {<<>>, Feed(repeats)} /\ currentCard = NULL /\ IdleLines
          \/ page = "card" /\ cards = <<>>
                /\ \E n \in 1..Len(Feed(repeats)), free \in FreeCells :
                       currentCard = Some(withFreeCell(Feed(repeats)[n], free))
                \* displayCard has rendered the card before fetchLivePrices starts
                /\ lineCells = Some(renderInlineLineProbs(Val(Val(currentCard).grid)))

\* The requests of the live batch that starts at i.
liveRequests(list, i) == {[phase |-> "live", pos |-> k, batch |-> i] : k \in batchOf(list, i)}

\* The requests of the stats batch that starts at i.
statsRequests(list, i, cache) ==
    {[phase |-> "stats", pos |-> k, batch |-> i] :
        k \in {j \in batchOf(list, i) : awaitsBets(list[j], cache)}}

\* The promises of the stats batch that starts at i and await no request.
statsAtOnce(list, i, cache) ==
    [k \in {j \in batchOf(list, i) : ~awaitsBets(list[j], cache)} |->
        statsResultAtOnce(list[k], cache)]

\* await Promise.all(promises): the values in the order of the batch.
batchResults(res, list, i) ==
    [j \in 1..Cardinality(batchOf(list, i)) |-> res[i + j]]

\* displayMarketActivity up to its first await.
StartIndex ==
    /\ page = "index" /\ pagePc = "start"
    /\ LET collected == collectUniqueMarkets(cards)
       IN  IF Len(collected) = 0
           THEN /\ pagePc' = "done"
                /\ UNCHANGED <<marketsArr, inFlight, liveRequestCount>>
           ELSE /\ pagePc' = "live"
                /\ marketsArr' = collected
                /\ inFlight' = liveRequests(collected, 0)
                /\ liveRequestCount' =
                      Counted(liveRequestCount, [k \in batchOf(collected, 0) |-> collected[k].slug])
    /\ UNCHANGED <<lineVars, doubleVars, sortVars, now, pureVars, baselineVars, cards, cardStatsVars, sparklineCache, callVars, page, currentCard,
                   batchStart, results, marketsList, marketsWithStats, liveProbs,
                   cardLiveWinProb, betRequestCount, responses>>

\* The live phase with every result pushed to marketsList as it arrives.
LiveSettle_pushesOnArrival(pos) ==
    /\ page = "index" /\ pagePc = "live"
    /\ [phase |-> "live", pos |-> pos, batch |-> batchStart] \in inFlight
    /\ \E response \in LiveResponses(marketsArr[pos].slug) :
          /\ results' = (pos :> liveResult(marketsArr[pos], response)) @@ results
          /\ marketsList' = Append(marketsList, liveResult(marketsArr[pos], response))
          /\ responses' = (<<"live", pos>> :> response) @@ responses
    /\ inFlight' = inFlight \ {[phase |-> "live", pos |-> pos, batch |-> batchStart]}
    /\ UNCHANGED <<lineVars, doubleVars, sortVars, now, pureVars, baselineVars, cards, cardStatsVars, sparklineCache, callVars, page, pagePc,
                   currentCard, marketsArr, batchStart, marketsWithStats, liveProbs,
                   cardLiveWinProb, liveRequestCount, betRequestCount>>

\* The request of the live phase for position pos is answered and its
\* promise resolves.
LiveSettle(pos) ==
    /\ page = "index" /\ pagePc = "live"
    /\ [phase |-> "live", pos |-> pos, batch |-> batchStart] \in inFlight
    /\ \E response \in LiveResponses(marketsArr[pos].slug) :
          /\ results' = (pos :> liveResult(marketsArr[pos], response)) @@ results
          /\ responses' = (<<"live", pos>> :> response) @@ responses
    /\ inFlight' = inFlight \ {[phase |-> "live", pos |-> pos, batch |-> batchStart]}
    /\ UNCHANGED <<lineVars, doubleVars, sortVars, now, pureVars, baselineVars, cards, cardStatsVars, sparklineCache, callVars, page, pagePc,
                   currentCard, marketsArr, batchStart, marketsList, marketsWithStats, liveProbs,
                   cardLiveWinProb, liveRequestCount, betRequestCount>>

\* Promise.all of a live batch resolves: the results are pushed and the
\* next batch is sent, that of the stats phase after the last live batch.
LiveBatchDone ==
    /\ page = "index" /\ pagePc = "live" /\ inFlight = {}
    /\ LET list == marketsList \o batchResults(results, marketsArr, batchStart)
           next == batchStart + BATCH_SIZE
       IN  /\ marketsList' = list
           /\ IF next < Len(marketsArr)
              THEN /\ batchStart' = next
                   /\ inFlight' = liveRequests(marketsArr, next)
                   /\ results' = <<>>
                   /\ liveRequestCount' =
                         Counted(liveRequestCount,
                                 [k \in batchOf(marketsArr, next) |-> marketsArr[k].slug])
                   /\ UNCHANGED <<pagePc, betRequestCount>>
              ELSE /\ pagePc' = "stats"
                   /\ batchStart' = 0
                   /\ inFlight' = statsRequests(list, 0, sparklineCache)
                   /\ results' = statsAtOnce(list, 0, sparklineCache)
                   /\ betRequestCount' =
                         Counted(betRequestCount,
                                 [r \in statsRequests(list, 0, sparklineCache) |->
                                     Val(list[r.pos].contractId)])
                   /\ UNCHANGED liveRequestCount
    /\ UNCHANGED <<lineVars, doubleVars, sortVars, now, pureVars, baselineVars, cards, cardStatsVars, sparklineCache, callVars, page, currentCard,
                   marketsArr, marketsWithStats, liveProbs, cardLiveWinProb, responses>>

\* The request of the stats phase for position pos is answered:
\* fetchBetHistory stores what it got and the promise resolves.
StatsSettle(pos) ==
    /\ page = "index" /\ pagePc = "stats"
    /\ [phase |-> "stats", pos |-> pos, batch |-> batchStart] \in inFlight
    /\ \E response \in BetsResponses(Val(marketsList[pos].contractId)) :
          /\ sparklineCache' =
                cacheAfterResponse(sparklineCache, Val(marketsList[pos].contractId), response)
          /\ results' = (pos :> statsResult(marketsList[pos], response)) @@ results
          /\ responses' = (<<"stats", pos>> :> response) @@ responses
    /\ inFlight' = inFlight \ {[phase |-> "stats", pos |-> pos, batch |-> batchStart]}
    /\ UNCHANGED <<lineVars, doubleVars, sortVars, now, pureVars, baselineVars, cards, cardStatsVars, callVars, page, pagePc, currentCard,
                   marketsArr, batchStart, marketsList, marketsWithStats, liveProbs,
                   cardLiveWinProb, liveRequestCount, betRequestCount>>

\* Promise.all of a stats batch resolves: the results are pushed and the
\* next batch is sent; after the last batch the list is sorted and the
\* leaderboard is computed from it.
StatsBatchDone ==
    /\ page = "index" /\ pagePc = "stats" /\ inFlight = {}
    /\ LET list == marketsWithStats \o batchResults(results, marketsList, batchStart)
           next == batchStart + BATCH_SIZE
       IN  IF next < Len(marketsList)
           THEN /\ marketsWithStats' = list
                /\ batchStart' = next
                /\ inFlight' = statsRequests(marketsList, next, sparklineCache)
                /\ results' = statsAtOnce(marketsList, next, sparklineCache)
                /\ betRequestCount' =
                      Counted(betRequestCount,
                              [r \in statsRequests(marketsList, next, sparklineCache) |->
                                  Val(marketsList[r.pos].contractId)])
                /\ UNCHANGED <<pagePc, cardStatsVars>>
           ELSE /\ \E sorted \in {sortByActivity(list)} :
                     \E map \in {marketDataMapOf(sorted)} :
                        /\ marketsWithStats' = sorted
                        /\ marketDataMap' = map
                        /\ cardsWithStats' = Some(computeCardStats(cards, map))
                /\ pagePc' = "done"
                /\ results' = <<>>
                /\ UNCHANGED <<batchStart, inFlight, betRequestCount>>
    /\ UNCHANGED <<lineVars, doubleVars, sortVars, now, pureVars, baselineVars, cards, sparklineCache, callVars, page, currentCard, marketsArr,
                   marketsList, liveProbs, cardLiveWinProb, liveRequestCount, responses>>

\* fetchLivePrices up to its await: one request for every cell of the grid.
StartCard ==
    /\ page = "card" /\ pagePc = "start"
    /\ pagePc' = "live"
    /\ inFlight' = {[phase |-> "live", pos |-> c, batch |-> 0] : c \in Cells}
    /\ liveRequestCount' =
          Counted(liveRequestCount, [c \in Cells |-> Val(Val(currentCard).grid)[c].slug])
    /\ UNCHANGED <<lineVars, doubleVars, sortVars, now, pureVars, baselineVars, cards, cardStatsVars, sparklineCache, callVars, page, currentCard,
                   marketsArr, batchStart, results, marketsList, marketsWithStats, liveProbs,
                   cardLiveWinProb, betRequestCount, responses>>

\* The request for cell c is answered: r.ok ? r.json() : null, null when
\* it throws.  Promise.all keeps the values by position, so the answers
\* are taken in the order of the cells.
CardSettle(c) ==
    /\ page = "card" /\ pagePc = "live"
    /\ [phase |-> "live", pos |-> c, batch |-> 0] \in inFlight
    /\ \A r \in inFlight : c <= r.pos
    /\ \E response \in LiveResponses(Val(Val(currentCard).grid)[c].slug) :
          /\ results' = (c :> IF response.kind = "ok" THEN Some(response.data) ELSE NULL)
                            @@ results
          /\ responses' = (<<"live", c>> :> response) @@ responses
    /\ inFlight' = inFlight \ {[phase |-> "live", pos |-> c, batch |-> 0]}
    /\ UNCHANGED <<lineVars, doubleVars, sortVars, now, pureVars, baselineVars, cards, cardStatsVars, sparklineCache, callVars, page, pagePc,
                   currentCard, marketsArr, batchStart, marketsList, marketsWithStats, liveProbs,
                   cardLiveWinProb, liveRequestCount, betRequestCount>>

\* Promise.all of fetchLivePrices resolves: the live vector, the contract
\* ids, the live win probability and the line probabilities.
CardDone ==
    /\ page = "card" /\ pagePc = "live" /\ inFlight = {}
    /\ pagePc' = "done"
    /\ liveProbs' = Some(cardLiveProbs(Val(currentCard), results))
    /\ currentCard' = Some(cardWithContractIds(Val(currentCard), results))
    /\ cardLiveWinProb' = Some(approximateWinProb(cardLiveProbs(Val(currentCard), results)))
    /\ lineCells' = Some(updateLineProbs(Val(lineCells), cardLiveProbs(Val(currentCard), results)))
    /\ UNCHANGED <<doubleVars, sortVars, now, pureVars, baselineVars, cards, cardStatsVars, sparklineCache, callVars, page, marketsArr,
                   batchStart, inFlight, results, marketsList, marketsWithStats,
                   liveRequestCount, betRequestCount, responses>>

Next ==
    \/ StartIndex
    \/ \E pos \in 1..MaxMarkets : LiveSettle(pos)
    \/ LiveBatchDone
    \/ \E pos \in 1..MaxMarkets : StatsSettle(pos)
    \/ StatsBatchDone
    \/ StartCard
    \/ \E c \in Cells : CardSettle(c)
    \/ CardDone

Spec == Init /\ [][Next]_vars

\* The entry of the final list for the market at position k of the
\* collected markets.
FinalOf(k) ==
    marketsWithStats[CHOOSE j \in 1..Len(marketsWithStats) :
                        marketsWithStats[j].slug = marketsArr[k].slug]

LiveFailed(k) == responses[<<"live", k>>].kind # "ok"

BetsAsked(k) == <<"stats", k>> \in DOMAIN responses

BetsFailed(k) == BetsAsked(k) /\ responses[<<"stats", k>>].kind # "ok"

IndexDone == page = "index" /\ pagePc = "done" /\ marketsArr # <<>>

\* C8 as amended: whatever fetches fail, every promise of a batch of
\* displayMarketActivity resolves once its request is answered, so that the
\* load runs to completion, and every collected market appears exactly once
\* in the final list.  A market whose live fetch failed keeps its static snapshot
\* probability as currentProb and carries no live data, no contract id and
\* no stats.  A market whose live fetch succeeded carries the body, the id
\* and the resolution of its own response; if its bet-history fetch failed
\* it keeps the currentProb its live fetch gave it and carries a stats
\* object with no values, and if that fetch succeeded its stats are those
\* of its own bets.
C8_FailureIsIsolated ==
    /\ (page = "index" /\ pagePc \in {"live", "stats"}) =>
          \A k \in (batchStart + 1)..Min(batchStart + 10, Len(marketsArr)) :
              (k \in DOMAIN results) <=> (\A r \in inFlight : r.pos # k)
    /\ IndexDone =>
          /\ Len(marketsWithStats) = Len(marketsArr)
          /\ \A k \in 1..Len(marketsArr) :
                Cardinality({j \in 1..Len(marketsWithStats) :
                                marketsWithStats[j].slug = marketsArr[k].slug}) = 1
          /\ \A k \in 1..Len(marketsArr) :
                IF LiveFailed(k)
                THEN /\ FinalOf(k).currentProb = marketsArr[k].currentProb
                     /\ Field(FinalOf(k), "liveData") = NULL
                     /\ FinalOf(k).contractId = NULL
                     /\ FinalOf(k).stats = NULL
                     /\ ~BetsAsked(k)
                ELSE /\ FinalOf(k).liveData = Some(responses[<<"live", k>>].data)
                     /\ FinalOf(k).contractId = Some(responses[<<"live", k>>].data.id)
                     /\ FinalOf(k).isResolved = responses[<<"live", k>>].data.isResolved
                     /\ FinalOf(k).currentProb = marketsList[k].currentProb
                     /\ BetsFailed(k) => FinalOf(k).stats = Some(NoStats)
                     /\ BetsAsked(k) /\ ~BetsFailed(k) =>
                           FinalOf(k).stats =
                              Some(computeMarket24hStats(
                                      Some(timelineOfBets(responses[<<"stats", k>>].bets)),
                                      Val(FinalOf(k).currentProb)))

\* C8 witness: a finished load in which the live fetch of one market threw,
\* the bet-history fetch of another was not OK, and a third market has its
\* stats.
C8_Witness ==
    /\ IndexDone
    /\ \E k, l, m \in 1..Len(marketsArr) :
          /\ responses[<<"live", k>>].kind = "throw"
          /\ BetsAsked(l) /\ responses[<<"stats", l>>].kind = "notOk"
          /\ FinalOf(l).currentProb # marketsArr[l].currentProb
          /\ BetsAsked(m) /\ Val(FinalOf(m).stats).hasActivity

\* C8 as stated: a market whose live or bet-history fetch failed has its
\* static snapshot probability as currentProb and no live data or no stats
\* values.
C8_AsStated ==
    IndexDone =>
        \A k \in 1..Len(marketsArr) :
            LiveFailed(k) \/ BetsFailed(k) =>
                /\ FinalOf(k).currentProb = marketsArr[k].currentProb
                /\ \/ Field(FinalOf(k), "liveData") = NULL
                   \/ FinalOf(k).stats = NULL
                   \/ FinalOf(k).stats = Some(NoStats)

\* C9 as amended: on the index page at most 10 requests are in flight at
\* any moment, all of them of the batch in progress, and requests are sent
\* only when none is in flight; the card page sends one request for every
\* cell of the grid, 25 at once.
C9_IndexLoadsInBatches ==
    [][
        /\ page = "index" =>
              /\ Cardinality(inFlight') <= 10
              /\ \A r \in inFlight' :
                    /\ r.phase = pagePc' /\ r.batch = batchStart'
                    /\ r.pos > batchStart' /\ r.pos <= batchStart' + 10
              /\ (inFlight' \ inFlight # {}) => inFlight = {}
        /\ (page = "card" /\ inFlight' \ inFlight # {}) =>
              (inFlight = {} /\ {r.pos : r \in inFlight'} = Cells)
    ]_vars

\* C9 witness: the second batch of the stats phase is in flight.
C9_Witness ==
    /\ page = "index" /\ pagePc = "stats"
    /\ batchStart = BATCH_SIZE
    /\ inFlight # {}

\* C9 as stated: on either page at most 10 requests are in flight at any
\* moment.
C9_AsStated == page \in {"index", "card"} => Cardinality(inFlight) <= 10

\* The cells of the card, the free space included, that hold slug.
CellsHolding(card, slug) == {c \in Cells : Val(card.grid)[c].slug = slug}

\* C10 as amended: during a load of the index page the market endpoint is
\* requested at most once per slug, and once the live phase is over exactly
\* once for every distinct slug of the feed and for nothing else, and the
\* bets endpoint at most once per contract; during a load of the card page
\* the market endpoint is requested once for every cell of the card, so a
\* slug is requested as many times as cells of the card hold it.
C10_OneFetchPerMarket ==
    /\ page = "index" =>
          /\ \A slug \in DOMAIN liveRequestCount : liveRequestCount[slug] = 1
          /\ DOMAIN liveRequestCount \subseteq SlugsOf(cards)
          /\ pagePc \in {"stats", "done"} => DOMAIN liveRequestCount = SlugsOf(cards)
          /\ \A c \in DOMAIN betRequestCount : betRequestCount[c] = 1
          /\ DOMAIN betRequestCount \subseteq
                {Val(marketsList[k].contractId) :
                    k \in {j \in 1..Len(marketsList) : marketsList[j].contractId # NULL}}
    /\ page = "card" /\ pagePc # "start" =>
          /\ \A slug \in DOMAIN liveRequestCount :
                liveRequestCount[slug] = Cardinality(CellsHolding(Val(currentCard), slug))
          /\ \A c \in Cells : Val(Val(currentCard).grid)[c].slug \in DOMAIN liveRequestCount
          /\ betRequestCount = <<>>

\* C10 witness: a finished load of the index page whose first card holds
\* market 1 in two cells and shares a market with the second card, and a
\* bet history that was asked for.
C10_Witness ==
    /\ IndexDone
    /\ Cardinality(CellsHolding(cards[1], 1)) = 2
    /\ Cardinality(Referencing(cards, SharedSlug)) = 2
    /\ liveRequestCount[1] = 1 /\ liveRequestCount[SharedSlug] = 1
    /\ ContractOf(1) \notin DOMAIN betRequestCount
    /\ betRequestCount[ContractOf(3)] = 1

\* C10 as stated: during a load of either page the market endpoint is
\* requested at most once per slug and the bets endpoint at most once per
\* contract.
C10_AsStated ==
    /\ \A slug \in DOMAIN liveRequestCount \ {0} : liveRequestCount[slug] <= 1
    /\ \A c \in DOMAIN betRequestCount : betRequestCount[c] <= 1

\* The entry of marketsList that the response to the request of position
\* k determines.
LiveEntry(k) == liveResult(marketsArr[k], responses[<<"live", k>>])

\* The entry of marketsWithStats that the responses to the requests of
\* position k determine.
StatsEntry(k) ==
    IF <<"stats", k>> \in DOMAIN responses
    THEN statsResult(LiveEntry(k), responses[<<"stats", k>>])
    ELSE statsResultAtOnce(LiveEntry(k), sparklineCache)

\* C11: on the index page the merged lists are a function of the cards and
\* of the response each market received, whatever the order in which the
\* requests of a batch were answered: marketsList holds, in the order of
\* the collected markets, the entry that each market's response determines
\* for every batch that is over, marketsWithStats likewise before the final
\* sort, and after it marketsWithStats is the stable sort of that list.
C11_MergedListIsDetermined ==
    (page = "index" /\ marketsArr # <<>>) =>
        /\ Len(marketsList) = IF pagePc = "live" THEN batchStart ELSE Len(marketsArr)
        /\ marketsList = [k \in 1..Len(marketsList) |-> LiveEntry(k)]
        /\ pagePc = "live" => marketsWithStats = <<>>
        /\ pagePc = "stats" => marketsWithStats = [k \in 1..batchStart |-> StatsEntry(k)]
        /\ pagePc = "done" =>
              marketsWithStats = sortByActivity([k \in 1..Len(marketsArr) |-> StatsEntry(k)])

\* C11 witness: the live phase is over and, in the first batch of the stats
\* phase, the last request has been answered while an earlier one is still
\* in flight.
C11_Witness ==
    /\ page = "index" /\ pagePc = "stats" /\ batchStart = 0
    /\ Len(marketsList) = Len(marketsArr)
    /\ BATCH_SIZE \in DOMAIN results
    /\ <<"stats", BATCH_SIZE>> \in DOMAIN responses
    /\ [phase |-> "stats", pos |-> 2, batch |-> 0] \in inFlight

(***************************************************************************)
(* The load of the index page with one slow market: every request is       *)
(* answered in the end, except that of the market collected last, which    *)
(* may be answered or not.  The steps of the program itself are taken      *)
(* whenever they can be.                                                   *)
(***************************************************************************)
SlowSlug == SharedSlug + 1

\* The index page of a feed of one card, the second of Feed, whose markets
\* make one batch with the slow market in it.
InitSlow ==
    /\ now = StartTime
    /\ IdleWin /\ IdleStats /\ IdleCollect /\ IdleCalls /\ IdleCardStats /\ IdleLoad
    /\ IdleBaseline /\ IdleSort /\ IdleLines /\ IdleDouble
    /\ sparklineCache = StoredCache
    /\ page = "index" /\ cards = << Feed(FALSE)[2] >> /\ currentCard = NULL

\* A request of a market other than the slow one is answered.
OthersSettle ==
    \/ \E pos \in 1..Len(marketsArr) : marketsArr[pos].slug # SlowSlug /\ LiveSettle(pos)
    \/ \E pos \in 1..Len(marketsArr) : marketsArr[pos].slug # SlowSlug /\ StatsSettle(pos)

\* A request of the slow market is answered.
SlowSettles ==
    \/ \E pos \in 1..Len(marketsArr) : marketsArr[pos].slug = SlowSlug /\ LiveSettle(pos)
    \/ \E pos \in 1..Len(marketsArr) : marketsArr[pos].slug = SlowSlug /\ StatsSettle(pos)

NextSlow ==
    \/ StartIndex
    \/ OthersSettle
    \/ SlowSettles
    \/ LiveBatchDone
    \/ StatsBatchDone

\* A step of displayMarketActivity itself; at most one of them can be
\* taken in any state.
ProgramStep == StartIndex \/ LiveBatchDone \/ StatsBatchDone

SpecSlow ==
    /\ InitSlow /\ [][NextSlow]_vars
    /\ WF_vars(ProgramStep)
    /\ WF_vars(OthersSettle)

\* C12: provided every fetch of the other markets settles, the load of the
\* index page ends with the activity feed and the live leaderboard
\* rendered, whether or not the fetch of the slow market ever settles.
C12_SlowFetchDoesNotBlock == <>(pagePc = "done" /\ cardsWithStats # NULL)


\* C20: on the card page the free cell stands in the live vector of
\* fetchLivePrices with probability 1, and the live win probability is
\* the one of the vector with 1 in the free cell, whatever the card file
\* holds in that cell and whatever the request for it received.
C20_FreeCellCountsAsOne ==
    (page = "card" /\ pagePc = "done") =>
        /\ Val(liveProbs)[FREE_SPACE_INDEX] = ProbSteps
        /\ Val(cardLiveWinProb)
               = approximateWinProb([Val(liveProbs) EXCEPT ![FREE_SPACE_INDEX] = ProbSteps])

\* ---------------------------------------------------------------------
\* The baseline of win probabilities in localStorage
\* (getLastSeenProbs, saveLastSeenProbs, calculateCardDeltas, and the
\* automatic save of loadCardsIndex).
\* ---------------------------------------------------------------------

STORAGE_KEY == "manifold_bingo_last_seen"

PREFS_KEY == "manifold_bingo_prefs"

SPARKLINE_CACHE_KEY == "manifold_bingo_sparklines"

StorageKeys == {STORAGE_KEY, PREFS_KEY, SPARKLINE_CACHE_KEY}

\* The texts a key can hold: the empty string, a text that is not JSON,
\* and the JSON text of a value.
EmptyText == [text |-> "empty"]

Garbage == [text |-> "garbage"]

JsonText(v) == [text |-> "json", value |-> v]

\* The value JSON.parse gives for the text null (an object is a function
\* of its keys, {} the function of no keys).
JsNull == [js |-> "null"]

\* JSON.stringify of an object of objects: a property whose value is
\* undefined is left out of the text (a timestamp is always a number).
JSONstringify(obj) ==
    JsonText([k \in DOMAIN obj |->
                 [f \in {g \in DOMAIN obj[k] : g = "timestamp" \/ obj[k][g] # NULL}
                     |-> obj[k][f]]])

\* JSON.parse: the value of a JSON text; any other text throws.
ParseThrows(stored) == stored.text # "json"

JSONparse(stored) == stored.value

\* getItem gives null for a missing key; null and "" are falsy.
Falsy(stored) == stored = NULL \/ stored = EmptyText

\* getLastSeenProbs(): the parsed text, {} if there is none or parsing
\* throws.
getLastSeenProbs(store) ==
    IF Falsy(store[STORAGE_KEY]) THEN << >>
    ELSE IF ParseThrows(store[STORAGE_KEY]) THEN << >>
    ELSE JSONparse(store[STORAGE_KEY])

\* The probs object saveLastSeenProbs builds: the assignments of the
\* forEach in card order, so the last card of an id stays.
LastWithId(cs, id) == CHOOSE k \in 1..Len(cs) :
    /\ cs[k].card_id = id
    /\ \A j \in (k + 1)..Len(cs) : cs[j].card_id # id

probsOf(cs, at) ==
    [id \in {cs[k].card_id : k \in 1..Len(cs)} |->
        [win_probability |-> cs[LastWithId(cs, id)].win_probability, timestamp |-> at]]

\* saveLastSeenProbs(cards): setItem replaces the text of the key, or
\* throws (quota, storage disabled), which is caught and logged.
saveLastSeenProbs_merges(store, cs, at, setItemThrows) ==
    IF setItemThrows THEN store
    ELSE [store EXCEPT ![STORAGE_KEY] =
             JSONstringify(probsOf(cs, at) @@ getLastSeenProbs(store))]

saveLastSeenProbs(store, cs, at, setItemThrows) ==
    IF setItemThrows THEN store
    ELSE [store EXCEPT ![STORAGE_KEY] = JSONstringify(probsOf(cs, at))]

HOUR_MS == 1000 * 60 * 60

\* calculateCardDeltas(cards) at the instant at.
cardDelta_sinceStart(card, lastSeen, at) ==
    LET last == Field(lastSeen, card.card_id)
    IN  IF last = NULL
        THEN [delta |-> NULL, hoursSince |-> NULL] @@ card
        ELSE [delta |-> Some(FxDiff(card.win_probability, last.win_probability)),
              hoursSince |-> Some(Ratio(at - StartTime, HOUR_MS))] @@ card

cardDelta(card, lastSeen, at) ==
    LET last == Field(lastSeen, card.card_id)
    IN  IF last = NULL
        THEN [delta |-> NULL, hoursSince |-> NULL] @@ card
        ELSE [delta |-> Some(FxDiff(card.win_probability, last.win_probability)),
              hoursSince |-> Some(Ratio(at - last.timestamp, HOUR_MS))] @@ card

\* The read of a property of null throws, in the callback of the first
\* card.
calculateCardDeltasThrows(store, cs) == getLastSeenProbs(store) = JsNull /\ cs # << >>

calculateCardDeltas(store, cs, at) ==
    LET lastSeen == getLastSeenProbs(store)
    IN  [k \in 1..Len(cs) |-> cardDelta(cs[k], lastSeen, at)]

\* The clock moves in steps of this many minutes, this many times.
TickMinutes == 30

MaxTicks == 2

\* loadCardsIndex runs at most this many times.
MaxLoads == 2

\* The cards of index.json at different times: none, two cards, the
\* second of them alone, and the two with other win probabilities.
BaselineCard(n, p) == [DenseCard(n, "active", NULL) EXCEPT !.win_probability = FxOfProb(p)]

BaselineFeeds ==
    { << >>,
      << BaselineCard(1, 1), BaselineCard(2, 1) >>,
      << BaselineCard(2, ProbSteps) >>,
      << BaselineCard(1, ProbSteps), BaselineCard(2, 0) >> }

\* The answers to the fetch of index.json.
IndexResponses ==
    {[kind |-> "notOk", cards |-> << >>], [kind |-> "throw", cards |-> << >>]}
        \cup {[kind |-> "ok", cards |-> f] : f \in BaselineFeeds}

\* What the baseline key holds on a first visit: nothing, or a text left
\* there that does not parse.
InitBaseline ==
    /\ now = StartTime
    /\ IdleWin /\ IdleStats /\ IdleCollect /\ IdleCardStats /\ IdleCache /\ IdlePage /\ IdleSort /\ IdleLines /\ IdleDouble
    /\ cards = << >>
    /\ \E stored \in {NULL, EmptyText, Garbage} :
           storage = [k \in StorageKeys |-> IF k = STORAGE_KEY THEN stored ELSE NULL]
    /\ lastSave = NULL
    /\ reads = << >>
    /\ deltas = NULL
    /\ loads = << >>

BaselineTick ==
    /\ now < StartTime + MaxTicks * TickMinutes * 60 * 1000
    /\ now' = now + TickMinutes * 60 * 1000
    /\ UNCHANGED <<lineVars, doubleVars, sortVars, winVars, statsVars, cards, collectVars, cardStatsVars, cacheVars, pageVars,
                   baselineVars>>

\* Object.keys(lastSeen).length === 0
baselineIsEmpty_always(lastSeen) == TRUE

baselineIsEmpty(lastSeen) == DOMAIN lastSeen = {}

\* loadCardsIndex(), up to its call of displayMarketActivity: a failed
\* fetch ends in the catch, and so does a throw of Object.keys on a stored
\* null, after allCardsData is set ("threw": the page shows 'Failed to load
\* cards' and the activity feed is not started).
LoadCardsIndex ==
    /\ Len(loads) < MaxLoads
    /\ \E response \in IndexResponses, setItemThrows \in BOOLEAN :
           LET lastSeen == getLastSeenProbs(storage)
           IN  /\ loads' = Append(loads, IF response.kind # "ok" THEN "failed"
                                          ELSE IF lastSeen = JsNull THEN "threw" ELSE "ok")
               /\ IF response.kind # "ok"
                  THEN UNCHANGED <<cards, storage, lastSave, reads>>
                  ELSE
                    /\ cards' = response.cards
                    /\ IF lastSeen # JsNull /\ baselineIsEmpty(lastSeen) /\ ~setItemThrows
                       THEN /\ storage' = saveLastSeenProbs(storage, response.cards, now, FALSE)
                            /\ lastSave' = Some([cards |-> response.cards, at |-> now])
                            /\ reads' = << >>
                       ELSE UNCHANGED <<storage, lastSave, reads>>
    /\ deltas' = NULL
    /\ UNCHANGED <<lineVars, doubleVars, sortVars, now, winVars, statsVars, collectVars, cardStatsVars, cacheVars, pageVars>>

\* A call of saveLastSeenProbs(cards); lastSave keeps the latest call whose
\* setItem returned.
CallSaveLastSeenProbs ==
    /\ \E cs \in BaselineFeeds, setItemThrows \in BOOLEAN :
           /\ storage' = saveLastSeenProbs(storage, cs, now, setItemThrows)
           /\ IF setItemThrows THEN UNCHANGED <<lastSave, reads>>
              ELSE lastSave' = Some([cards |-> cs, at |-> now]) /\ reads' = << >>
    /\ deltas' = NULL
    /\ UNCHANGED <<lineVars, doubleVars, sortVars, now, winVars, statsVars, cards, collectVars, cardStatsVars, cacheVars, pageVars,
                   loads>>

\* Reads are remembered up to this many.
MaxReads == 2

CallGetLastSeenProbs ==
    /\ Len(reads) < MaxReads
    /\ reads' = Append(reads, getLastSeenProbs(storage))
    /\ UNCHANGED <<lineVars, doubleVars, sortVars, now, winVars, statsVars, cards, collectVars, cardStatsVars, cacheVars, pageVars,
                   storage, lastSave, deltas, loads>>

\* A call of calculateCardDeltas(cards); deltas keeps its argument, its
\* instant, whether it threw and its result until the next save or load.
CallCalculateCardDeltas ==
    /\ \E cs \in BaselineFeeds :
           deltas' = Some([cards |-> cs, at |-> now,
                           threw |-> calculateCardDeltasThrows(storage, cs),
                           result |-> IF calculateCardDeltasThrows(storage, cs) THEN << >>
                                      ELSE calculateCardDeltas(storage, cs, now)])
    /\ UNCHANGED <<lineVars, doubleVars, sortVars, now, winVars, statsVars, cards, collectVars, cardStatsVars, cacheVars, pageVars,
                   storage, lastSave, reads, loads>>

NextBaseline ==
    \/ BaselineTick
    \/ LoadCardsIndex
    \/ CallSaveLastSeenProbs
    \/ CallGetLastSeenProbs
    \/ CallCalculateCardDeltas

SpecBaseline == InitBaseline /\ [][NextBaseline]_vars

\* C13: after a saveLastSeenProbs(cards) whose setItem returned, every
\* getLastSeenProbs() returns exactly the mapping that gives each card id
\* of that call the card's win probability and the instant of the save:
\* the ids of an earlier save are gone, and a second read returns what the
\* first returned.
C13_SaveThenGet ==
    lastSave # NULL =>
        \A r \in 1..Len(reads) :
            /\ DOMAIN reads[r] = {Val(lastSave).cards[k].card_id : k \in 1..Len(Val(lastSave).cards)}
            /\ \A k \in 1..Len(Val(lastSave).cards) :
                   LET card == Val(lastSave).cards[k]
                   IN  /\ DOMAIN reads[r][card.card_id] = {"win_probability", "timestamp"}
                       /\ reads[r][card.card_id].win_probability = card.win_probability
                       /\ reads[r][card.card_id].timestamp = Val(lastSave).at

\* A save of one card at a later instant than a save of more cards,
\* read twice.
C13_Witness ==
    /\ lastSave # NULL
    /\ Len(Val(lastSave).cards) = 1
    /\ Val(lastSave).cards[1].card_id = CardIds[2]
    /\ Val(lastSave).at > StartTime
    /\ Len(reads) = 2
    /\ now > Val(lastSave).at

\* The baseline the latest successful save left: its cards by id.
SavedIds == IF lastSave = NULL THEN {}
            ELSE {Val(lastSave).cards[k].card_id : k \in 1..Len(Val(lastSave).cards)}

SavedCard(id) == CHOOSE c \in {Val(lastSave).cards[k] : k \in 1..Len(Val(lastSave).cards)} :
    c.card_id = id

\* What a call of calculateCardDeltas has to return, card by card.
DeltasAsClaimed(call) ==
    /\ ~call.threw
    /\ DOMAIN call.result = 1..Len(call.cards)
    /\ \A k \in 1..Len(call.cards) :
           LET card == call.cards[k]
               out == call.result[k]
           IN  /\ DOMAIN out = DOMAIN card \cup {"delta", "hoursSince"}
               /\ \A f \in DOMAIN card : out[f] = card[f]
               /\ card.card_id \notin SavedIds => out.delta = NULL /\ out.hoursSince = NULL
               /\ card.card_id \in SavedIds =>
                      /\ out.delta = Some(FxDiff(card.win_probability,
                                                 SavedCard(card.card_id).win_probability))
                      /\ out.hoursSince # NULL
                      /\ Val(out.hoursSince).num = call.at - Val(lastSave).at
                      /\ Val(out.hoursSince).den = 60 * 60 * 1000

\* C14: a call of calculateCardDeltas(cards) returns one result per card,
\* in the order of the cards, each the card with two more fields: for a
\* card with a baseline entry, delta is its win probability minus the
\* baseline's and hoursSince the time since the entry's timestamp in
\* hours; for a card without one, both are null.  The call leaves the
\* stored baseline as it was.
C14_DeltasAgainstBaseline ==
    [][ (deltas' # NULL /\ deltas' # deltas)
            => (storage' = storage /\ lastSave' = lastSave /\ DeltasAsClaimed(Val(deltas'))) ]_vars

\* Half an hour after a save of the second card alone, the deltas of two
\* cards: none for the first, a fall for the second.
C14_Witness ==
    /\ deltas # NULL /\ lastSave # NULL
    /\ Len(Val(deltas).cards) = 2
    /\ Val(deltas).result[1].delta = NULL /\ Val(deltas).result[1].hoursSince = NULL
    /\ Val(deltas).result[2].delta # NULL
    /\ Val(Val(deltas).result[2].delta).neg
    /\ Val(deltas).at - Val(lastSave).at = 30 * 60 * 1000
    /\ Val(lastSave).at > StartTime

\* C15 as stated: once one load has fetched the index, no later load
\* changes the stored baseline.
C15_AsStated ==
    [][ (Len(loads') > Len(loads) /\ \E k \in 1..Len(loads) : loads[k] = "ok")
            => storage' = storage ]_vars

\* C15: a load of the index page writes the baseline only when its fetch of
\* the index succeeded and the stored mapping held no card at that load;
\* a load that finds a card in the stored mapping leaves the baseline as it
\* is, and so does a load whose fetch fails.
C15_AutoSaveOnlyWhenEmpty ==
    [][ Len(loads') > Len(loads) =>
            /\ storage' # storage => (SavedIds = {} /\ loads'[Len(loads')] = "ok")
            /\ SavedIds # {} => (storage' = storage /\ lastSave' = lastSave)
            /\ loads'[Len(loads')] # "ok" => (storage' = storage /\ lastSave' = lastSave) ]_vars

\* A first load saved the baseline; a later load fetched other cards and
\* the baseline is still the first load's.
C15_Witness ==
    /\ loads = <<"ok", "ok">>
    /\ lastSave # NULL
    /\ Val(lastSave).at = StartTime /\ now > StartTime
    /\ SavedIds # {}
    /\ cards # << >> /\ cards # Val(lastSave).cards

\* ---------------------------------------------------------------------
\* The stored keys with any content.
\* ---------------------------------------------------------------------

\* getSparklineCache(): the parsed text of the session key, {} if there is
\* none or parsing throws.
getSparklineCache(store) ==
    IF Falsy(store[SPARKLINE_CACHE_KEY]) THEN << >>
    ELSE IF ParseThrows(store[SPARKLINE_CACHE_KEY]) THEN << >>
    ELSE JSONparse(store[SPARKLINE_CACHE_KEY])

\* What a key can hold when the page opens: nothing, the empty string, a
\* text that is not JSON, the JSON text null, or a mapping stored earlier.
StoredBaselines ==
    {NULL, EmptyText, Garbage, JsonText(JsNull),
     JSONstringify(probsOf(<< BaselineCard(1, 1) >>, StartTime))}

\* Contract ids as the keys of the stored cache object, which are strings.
StoredContracts == {"contract-1", "contract-2"}

StoredCaches ==
    {NULL, EmptyText, Garbage, JsonText(JsNull),
     JsonText(saveSparklineCache(<< >>, "contract-1", << >>))}

InitStorage ==
    /\ now = StartTime
    /\ IdleWin /\ IdleStats /\ IdleCollect /\ IdleCardStats /\ IdleCache /\ IdlePage /\ IdleSort /\ IdleLines /\ IdleDouble
    /\ cards = << >>
    /\ \E baseline \in StoredBaselines, cache \in StoredCaches :
           storage = [k \in StorageKeys |-> IF k = STORAGE_KEY THEN baseline
                                            ELSE IF k = SPARKLINE_CACHE_KEY THEN cache
                                            ELSE NULL]
    /\ lastSave = NULL
    /\ reads = << >>
    /\ deltas = NULL
    /\ loads = << >>

\* fetchBetHistory(contractId) over the stored cache, up to its return
\* from the cache or its fetch: the cache is read, and cache[contractId]
\* evaluated, before the try block, so a throw there leaves the function.
CallFetchBetHistoryStored(contractId) ==
    /\ LET cache == getSparklineCache(storage)
       IN  lastCall' = Some([contractId |-> contractId, at |-> now,
                             cached |-> IF cache = JsNull THEN NULL ELSE MapGet(cache, contractId),
                             served |-> IF cache = JsNull THEN "thrown"
                                        ELSE IF cacheHit(cache, contractId) THEN "cache"
                                        ELSE "network"])
    /\ UNCHANGED <<lineVars, doubleVars, sortVars, now, winVars, statsVars, cards, collectVars, cardStatsVars, sparklineCache,
                   betCalls, nCalls, pageVars, baselineVars>>

NextStorage ==
    \/ LoadCardsIndex
    \/ CallCalculateCardDeltas
    \/ \E contractId \in StoredContracts : CallFetchBetHistoryStored(contractId)

SpecStorage == InitStorage /\ [][NextStorage]_vars

\* C16: whatever the baseline and cache keys hold, reading them behaves
\* as an empty mapping and no exception leaves the reader: a load that
\* fetched the index runs to its end, calculateCardDeltas returns its
\* results, and fetchBetHistory serves from the cache or goes to the
\* network.
C16_AnyContentReadsAsEmpty ==
    /\ \A k \in 1..Len(loads) : loads[k] # "threw"
    /\ deltas # NULL => ~Val(deltas).threw
    /\ lastCall # NULL => Val(lastCall).served # "thrown"

\* ---------------------------------------------------------------------
\* Sorting: sortCards, sortMarkets and the sort-header clicks.
\* ---------------------------------------------------------------------

\* A text is a sequence of characters, a character a letter in upper or
\* lower case; a missing text and '' are both the empty sequence.
Char(letter, upper) == [letter |-> letter, upper |-> upper]

toLowerCase(text) == [i \in 1..Len(text) |-> [text[i] EXCEPT !.upper = FALSE]]

\* x.localeCompare(y): negative, 0 or positive by the first character
\* that differs, a prefix before its extensions, lower case before upper.
RECURSIVE localeCompareFrom(_, _, _)
localeCompareFrom(x, y, i) ==
    IF i > Len(x) /\ i > Len(y) THEN 0
    ELSE IF i > Len(x) THEN -1
    ELSE IF i > Len(y) THEN 1
    ELSE IF x[i].letter < y[i].letter THEN -1
    ELSE IF x[i].letter > y[i].letter THEN 1
    ELSE IF x[i].upper = y[i].upper THEN localeCompareFrom(x, y, i + 1)
    ELSE IF y[i].upper THEN -1 ELSE 1

localeCompare(x, y) == localeCompareFrom(x, y, 1)

\* if (valA === valB) return 0; return multiplier * (valA > valB ? 1 : -1)
compareValues(valA, valB, multiplier) ==
    IF valA = valB THEN 0 ELSE multiplier * (IF valA > valB THEN 1 ELSE -1)

multiplierOf(direction) == IF direction = "desc" THEN -1 ELSE 1

\* The comparator of sortCards.
cardKey(a, column) ==
    CASE column = "prob" -> Coalesce(a.liveWinProb, Coalesce(a.win_probability, 0))
      [] column = "change" -> Coalesce(a.change24h, 0)
      [] column = "upside" ->
            Coalesce(a.high24h, Coalesce(a.liveWinProb, 0)) - Coalesce(a.liveWinProb, 0)
      [] column = "downside" ->
            Coalesce(a.liveWinProb, 0) - Coalesce(a.low24h, Coalesce(a.liveWinProb, 0))

compareCards(a, b, column, direction) ==
    IF column = "handle"
    THEN multiplierOf(direction)
             * localeCompare(toLowerCase(a.user_handle), toLowerCase(b.user_handle))
    ELSE IF column \in {"prob", "change", "upside", "downside"}
    THEN compareValues(cardKey(a, column), cardKey(b, column), multiplierOf(direction))
    ELSE 0

\* The comparator of sortMarkets.
statsField(a, field) == IF a.stats = NULL THEN 0 ELSE Coalesce(a.stats[field], 0)

marketKey(a, column) ==
    CASE column = "resolved" -> IF a.isResolved THEN 1 ELSE 0
      [] column = "prob" -> Coalesce(a.currentProb, 0)
      [] column = "change" -> statsField(a, "change24h")
      [] column = "range" -> statsField(a, "high24h") - statsField(a, "low24h")
      [] column = "cards" -> Len(a.cardIds)

compareMarkets(a, b, column, direction) ==
    IF column = "question"
    THEN multiplierOf(direction) * localeCompare(toLowerCase(a.question), toLowerCase(b.question))
    ELSE IF column \in {"resolved", "prob", "change", "range", "cards"}
    THEN compareValues(marketKey(a, column), marketKey(b, column), multiplierOf(direction))
    ELSE 0

\* [...list].sort(compare): Array.prototype.sort is stable, so an element
\* comes after the elements that compare before it and after the earlier
\* elements that compare equal to it.  The copy leaves the argument as it is.
earlierOfEqual_theLater(j, i) == j > i

earlierOfEqual(j, i) == j < i

StableSort(list, compare(_, _)) ==
    LET precedes(j, i) == \/ compare(list[j], list[i]) < 0
                          \/ compare(list[j], list[i]) = 0 /\ earlierOfEqual(j, i)
        rank(i) == Cardinality({j \in 1..Len(list) : j # i /\ precedes(j, i)}) + 1
    IN  [p \in 1..Len(list) |-> list[CHOOSE i \in 1..Len(list) : rank(i) = p]]

sortCards(list, column, direction) ==
    StableSort(list, LAMBDA a, b : compareCards(a, b, column, direction))

sortMarkets(list, column, direction) ==
    StableSort(list, LAMBDA a, b : compareMarkets(a, b, column, direction))

\* The lists sorted hold at most this many rows.
MaxSortLen == 3

\* Rows to sort.  Handles and questions: "a", "A", "b", and none.
TextA == << Char(1, FALSE) >>

TextUpperA == << Char(1, TRUE) >>

TextB == << Char(2, FALSE) >>

CardRows ==
    { [user_handle |-> TextUpperA, status |-> "active", liveWinProb |-> Some(2),
       win_probability |-> Some(1), change24h |-> Some(1), high24h |-> Some(3), low24h |-> Some(1)],
      [user_handle |-> TextA, status |-> "active", liveWinProb |-> Some(2),
       win_probability |-> Some(0), change24h |-> NULL, high24h |-> NULL, low24h |-> NULL],
      [user_handle |-> TextB, status |-> "active", liveWinProb |-> NULL,
       win_probability |-> Some(1), change24h |-> Some(-1), high24h |-> Some(2), low24h |-> Some(0)],
      [user_handle |-> << >>, status |-> "active", liveWinProb |-> Some(1),
       win_probability |-> NULL, change24h |-> Some(0), high24h |-> Some(1), low24h |-> Some(1)] }

MarketRows ==
    { [question |-> TextUpperA, isResolved |-> TRUE, currentProb |-> Some(2), stats |-> NULL,
       cardIds |-> <<"card-1">>],
      [question |-> TextA, isResolved |-> FALSE, currentProb |-> Some(1),
       stats |-> [change24h |-> Some(-1), high24h |-> Some(2), low24h |-> Some(1)],
       cardIds |-> <<"card-1", "card-2">>],
      [question |-> TextB, isResolved |-> FALSE, currentProb |-> Some(2),
       stats |-> [change24h |-> Some(1), high24h |-> Some(2), low24h |-> Some(1)],
       cardIds |-> <<"card-2">>],
      [question |-> << >>, isResolved |-> FALSE, currentProb |-> NULL,
       stats |-> [change24h |-> NULL, high24h |-> NULL, low24h |-> NULL],
       cardIds |-> <<"card-1">>] }

\* The lists of up to MaxSortLen rows, the row at position k with id k.
RowLists(rows) ==
    UNION {[1..n -> rows] : n \in 0..MaxSortLen}

WithIds(list) == [k \in 1..Len(list) |-> [id |-> k] @@ list[k]]

CardColumns == {"handle", "prob", "change", "upside", "downside"}

MarketColumns == {"resolved", "question", "prob", "change", "range", "cards"}

Directions == {"asc", "desc"}

InitSortCalls ==
    /\ now = StartTime
    /\ IdleWin /\ IdleStats /\ IdleCards /\ IdleCollect /\ IdleCardStats /\ IdleCache /\ IdlePage
    /\ IdleBaseline /\ IdleSort /\ IdleLines /\ IdleDouble

CallSortCards ==
    /\ lastSort = NULL
    /\ \E list \in RowLists(CardRows), column \in CardColumns \cup {"unknown"},
          direction \in Directions :
           lastSort' = Some([of |-> "cards", input |-> WithIds(list), column |-> column,
                             direction |-> direction,
                             output |-> sortCards(WithIds(list), column, direction)])
    /\ UNCHANGED <<lineVars, doubleVars, now, winVars, statsVars, cards, collectVars, cardStatsVars, cacheVars, pageVars,
                   baselineVars, leaderboardSortState, activitySortState, shownCards,
                   shownMarkets, clicks>>

CallSortMarkets ==
    /\ lastSort = NULL
    /\ \E list \in RowLists(MarketRows), column \in MarketColumns \cup {"unknown"},
          direction \in Directions :
           lastSort' = Some([of |-> "markets", input |-> WithIds(list), column |-> column,
                             direction |-> direction,
                             output |-> sortMarkets(WithIds(list), column, direction)])
    /\ UNCHANGED <<lineVars, doubleVars, now, winVars, statsVars, cards, collectVars, cardStatsVars, cacheVars, pageVars,
                   baselineVars, leaderboardSortState, activitySortState, shownCards,
                   shownMarkets, clicks>>

\* One call in a behaviour.
NextSortCalls == CallSortCards \/ CallSortMarkets

SpecSortCalls == InitSortCalls /\ [][NextSortCalls]_vars

\* The order of two rows under a column: negative when a's key is the
\* smaller, 0 when the keys are equal.
KeyOrder(call, a, b) ==
    IF call.of = "cards" THEN compareCards(a, b, call.column, "asc")
    ELSE compareMarkets(a, b, call.column, "asc")

KnownColumn(call) ==
    call.column \in (IF call.of = "cards" THEN CardColumns ELSE MarketColumns)

\* C17: sortCards and sortMarkets return a permutation of their input,
\* ordered by the column's key ascending for 'asc' and descending for
\* 'desc', in which rows of equal key keep the order they had in the input,
\* in both directions; for a column they do not know they return the
\* input order.
C17_SortIsStable ==
    lastSort # NULL =>
        LET call == Val(lastSort)
            n == Len(call.input)
        IN  /\ DOMAIN call.output = 1..n
            /\ \A k \in 1..n : \E p \in 1..n : call.output[p] = call.input[k]
            /\ ~KnownColumn(call) => call.output = call.input
            /\ KnownColumn(call) =>
                   \A p, q \in 1..n : p < q =>
                       LET order == KeyOrder(call, call.output[p], call.output[q])
                       IN  /\ call.direction = "asc" => order <= 0
                           /\ call.direction = "desc" => order >= 0
                           /\ order = 0 => call.output[p].id < call.output[q].id

\* Win probabilities 2, 2, 1 of the rows 1, 2, 3, sorted descending:
\* the rows come out as 1, 2, 3.
C17_Witness ==
    /\ lastSort # NULL
    /\ Val(lastSort).of = "cards" /\ Val(lastSort).column = "prob"
    /\ Val(lastSort).direction = "desc"
    /\ Len(Val(lastSort).input) = 3
    /\ [k \in 1..3 |-> cardKey(Val(lastSort).input[k], "prob")] = <<2, 2, 1>>
    /\ [k \in 1..3 |-> Val(lastSort).output[k].id] = <<1, 2, 3>>

\* ---------------------------------------------------------------------
\* The sort-header clicks of the leaderboard and of the activity feed.
\* ---------------------------------------------------------------------

\* direction === 'desc' ? 'asc' : 'desc'
toggled_stuck(direction) == "desc"

toggled(direction) == IF direction = "desc" THEN "asc" ELSE "desc"

\* The click handler of a leaderboard header.
leaderboardClick(state, column) ==
    IF state.column = column
    THEN [column |-> column, direction |-> toggled(state.direction)]
    ELSE [column |-> column, direction |-> IF column = "handle" THEN "asc" ELSE "desc"]

\* handleSortClick's update of activitySortState.
activityClick(state, column) ==
    IF state.column = column
    THEN [column |-> column, direction |-> toggled(state.direction)]
    ELSE [column |-> column, direction |-> IF column = "question" THEN "asc" ELSE "desc"]

\* The data-sort values of the headers rendered.
LeaderboardHeaders == {"handle", "prob", "change", "upside"}

ActivityHeaders == {"question", "prob", "change", "range", "cards"}

activeCards(list) == SelectSeq(list, LAMBDA c : c.status = "active")

\* The order displayMarketActivity leaves the markets in: resolved first,
\* then by falling absolute 24h change.
loadCompare(a, b) ==
    IF a.isResolved /\ ~b.isResolved THEN -1
    ELSE IF ~a.isResolved /\ b.isResolved THEN 1
    ELSE Abs(statsField(b, "change24h")) - Abs(statsField(a, "change24h"))

InLoadOrder(list) == \A i, j \in 1..Len(list) : i < j => loadCompare(list[i], list[j]) <= 0

\* The lists behind the two tables: two or three cards, of which one may
\* not be active, and two markets in load order.
CardRowOf(handle) == CHOOSE r \in CardRows : r.user_handle = handle

ClickCardLists ==
    { WithIds(<< CardRowOf(TextUpperA), CardRowOf(TextA) >>),
      WithIds(<< CardRowOf(TextB), [CardRowOf(TextA) EXCEPT !.status = "winner"],
                 CardRowOf(<< >>) >>) }

ClickMarketLists ==
    {WithIds(list) : list \in {l \in [1..2 -> MarketRows] : InLoadOrder(l)}}

\* More clicks than this are not followed.
MaxClicks == 3

\* The index page after its load: both tables rendered, the leaderboard
\* through sortCards with the initial sort state, the feed in load order.
InitClicks ==
    /\ now = StartTime
    /\ IdleWin /\ IdleStats /\ IdleCards /\ IdleCollect /\ IdleCache /\ IdleBaseline
    /\ page = "index" /\ pagePc = "done" /\ currentCard = NULL
    /\ marketsArr = <<>> /\ batchStart = 0 /\ inFlight = {} /\ results = <<>>
    /\ marketsList = <<>> /\ liveProbs = NULL /\ cardLiveWinProb = NULL
    /\ liveRequestCount = <<>> /\ betRequestCount = <<>> /\ responses = <<>>
    /\ marketDataMap = <<>>
    /\ \E list \in ClickCardLists : cardsWithStats = Some(list)
    /\ marketsWithStats \in ClickMarketLists
    /\ leaderboardSortState = [column |-> "prob", direction |-> "desc"]
    /\ activitySortState = [column |-> "change", direction |-> "desc"]
    /\ shownCards = sortCards(activeCards(Val(cardsWithStats)), "prob", "desc")
    /\ shownMarkets = marketsWithStats
    /\ lastSort = NULL
    /\ clicks = <<>>
    /\ IdleLines /\ IdleDouble

\* A click on a header of the leaderboard: the state changes and
\* displayLiveLeaderboard renders the active cards sorted again.
ClickLeaderboardHeader(column) ==
    /\ Len(clicks) < MaxClicks
    /\ activeCards(Val(cardsWithStats)) # <<>>
    /\ leaderboardSortState' = leaderboardClick(leaderboardSortState, column)
    /\ shownCards' = sortCards(activeCards(Val(cardsWithStats)), leaderboardSortState'.column,
                               leaderboardSortState'.direction)
    /\ clicks' = Append(clicks, [table |-> "leaderboard", column |-> column,
                                 before |-> leaderboardSortState,
                                 after |-> leaderboardSortState'])
    /\ UNCHANGED <<lineVars, doubleVars, now, winVars, statsVars, cards, collectVars, cardStatsVars, cacheVars, pageVars,
                   baselineVars, activitySortState, shownMarkets, lastSort>>

\* A click on a header of the activity feed: handleSortClick sorts the
\* markets the handlers were set up with, which renderActivityFeed passes
\* on as they were at the load.
ClickActivityHeader(column) ==
    /\ Len(clicks) < MaxClicks
    /\ marketsWithStats # <<>>
    /\ activitySortState' = activityClick(activitySortState, column)
    /\ shownMarkets' = sortMarkets(marketsWithStats, column, activitySortState'.direction)
    /\ clicks' = Append(clicks, [table |-> "activity", column |-> column,
                                 before |-> activitySortState,
                                 after |-> activitySortState'])
    /\ UNCHANGED <<lineVars, doubleVars, now, winVars, statsVars, cards, collectVars, cardStatsVars, cacheVars, pageVars,
                   baselineVars, leaderboardSortState, shownCards, lastSort>>

NextClicks ==
    \/ \E column \in LeaderboardHeaders : ClickLeaderboardHeader(column)
    \/ \E column \in ActivityHeaders : ClickActivityHeader(column)

SpecClicks == InitClicks /\ [][NextClicks]_vars

\* Where the row of an id stands in a displayed list.
PositionOf(list, id) == CHOOSE p \in 1..Len(list) : list[p].id = id

\* C18: after a click on a header of the activity feed, two rows whose
\* keys are equal under the column now sorted by stand in the order in
\* which they were displayed before the click.
C18_TiesKeepDisplayedOrder ==
    [][ activitySortState' # activitySortState =>
            \A p, q \in 1..Len(shownMarkets) :
                (/\ p < q
                 /\ compareMarkets(shownMarkets[p], shownMarkets[q],
                                   activitySortState'.column, "asc") = 0)
                    => PositionOf(shownMarkets', shownMarkets[p].id)
                           < PositionOf(shownMarkets', shownMarkets[q].id) ]_vars

\* The clicks on one table, in order.
ClicksOn(table) == SelectSeq(clicks, LAMBDA c : c.table = table)

NameColumns == {"handle", "question"}

Resolutions == {"null", "true", "false"}

ResolvedCell(slug, prob, resolved) == [Cell(slug, prob) EXCEPT !.resolved = resolved]

\* Cell 0 holds market 1 with stored probability x and resolution r, cell
\* 19 the flaky market with stored probability y, unresolved; the last row
\* is resolved YES when full; no other cell has a market.
ResolvedGrid(x, r, y, full) ==
    [c \in Cells |->
        IF c = 0 THEN ResolvedCell(1, x, r)
        ELSE IF c = 19 THEN Cell(SharedSlug, y)
        ELSE IF c = FREE_SPACE_INDEX THEN Cell(0, ProbSteps)
        ELSE IF full /\ c \in 20..24 THEN ResolvedCell(0, 1, "true")
        ELSE Cell(0, 1)]

ResolvedCards ==
    {DenseCard(1, "active", Some(ResolvedGrid(x, r, y, full))) :
        x \in Probs, r \in Resolutions, y \in Probs, full \in BOOLEAN}

\* No entry for market 1, an entry with a live probability only, and one
\* with statistics.
ResolvedMaps ==
    { <<>>,
      [s \in {1} |-> [currentProb |-> Some(1), stats |-> NULL]],
      [s \in {1} |-> OtherMarketData] }

InitCardPage ==
    /\ now = StartTime
    /\ IdleWin /\ IdleStats /\ IdleCollect /\ IdleCache /\ IdleBaseline /\ IdleSort /\ IdleDouble
    /\ page = "card" /\ pagePc = "loaded"
    /\ marketsArr = <<>> /\ batchStart = 0 /\ inFlight = {} /\ results = <<>>
    /\ marketsList = <<>> /\ marketsWithStats = <<>> /\ liveProbs = NULL /\ cardLiveWinProb = NULL
    /\ liveRequestCount = <<>> /\ betRequestCount = <<>> /\ responses = <<>>
    /\ \E card \in ResolvedCards : currentCard = Some(card) /\ cards = <<card>>
    /\ marketDataMap \in ResolvedMaps
    /\ cardsWithStats = NULL
    /\ lineCells = NULL

\* displayCard(card): the line cells are rendered from the stored grid.
DisplayCard ==
    /\ page = "card" /\ pagePc = "loaded"
    /\ pagePc' = "start"
    /\ lineCells' = Some(renderInlineLineProbs(Val(Val(currentCard).grid)))
    /\ UNCHANGED <<doubleVars, sortVars, now, pureVars, baselineVars, cards, cardStatsVars, cacheVars,
                   page, currentCard, marketsArr, batchStart, inFlight, results, marketsList,
                   marketsWithStats, liveProbs, cardLiveWinProb, historyVars>>

NextCardPage ==
    \/ DisplayCard
    \/ StartCard
    \/ \E c \in Cells : CardSettle(c)
    \/ CardDone
    \/ CallComputeCardStats

SpecCardPage == InitCardPage /\ [][NextCardPage]_vars

\* A vector with 1 at the cells resolved YES and 0 at those resolved NO.
WithResolutions(grid, vector) ==
    [c \in Cells |->
        IF grid[c].resolved = "true" THEN ProbSteps
        ELSE IF grid[c].resolved = "false" THEN 0
        ELSE vector[c]]

\* The product of the values of a line's cells, as a fraction.
LineValue(n, value(_)) ==
    calculateLineProb([k \in 1..Len(LINES[n].indices) |-> value(LINES[n].indices[k])])

SameRatio(a, b) == a.num * b.den = b.num * a.den

\* C21: a cell resolved YES counts as 1 and a cell resolved NO as 0,
\* whatever probability is stored or fetched for it: in the lines that
\* displayCard renders through getLineStats, in the live vector and the
\* live win probability of fetchLivePrices, and in the live win
\* probability of computeCardStats.
C21_ResolvedCellsCountAsCertain ==
    LET grid == Val(Val(currentCard).grid)
    IN  /\ (lineCells # NULL /\ pagePc # "done") =>
               \A n \in 1..Len(LINES) :
                   SameRatio(Val(lineCells)[n].value,
                             LineValue(n, LAMBDA c :
                                 IF grid[c].resolved = "true" THEN Ratio(1, 1)
                                 ELSE IF grid[c].resolved = "false" THEN Ratio(0, 1)
                                 ELSE lineCellProb(grid, c)))
        /\ pagePc = "done" =>
               /\ Val(liveProbs) = WithResolutions(grid, Val(liveProbs))
               /\ Val(cardLiveWinProb)
                      = approximateWinProb(WithResolutions(grid, Val(liveProbs)))
        /\ cardsWithStats # NULL =>
               Val(cardsWithStats)[1].liveWinProb
                   = approximateWinProb(WithResolutions(Val(cards[1].grid),
                                                        liveProbsOf(cards[1], marketDataMap)))

\* C22: a line that holds a cell of probability 0 has completion
\* probability 0: in the lines displayCard renders through getLineStats,
\* for a cell resolved NO or an unresolved cell whose stored probability is
\* 0; in the lines updateLineProbs recomputes, for a cell whose live
\* probability is 0; and in the live win probability, to which only the
\* lines without such a cell contribute.
C22_ZeroCellZeroesLine ==
    LET grid == Val(Val(currentCard).grid)
        zeroStored(c) ==
            /\ c # FREE_SPACE_INDEX
            /\ \/ grid[c].resolved = "false"
               \/ grid[c].resolved = "null" /\ grid[c].prob = 0
        indicesOf(n) == {LINES[n].indices[k] : k \in 1..Len(LINES[n].indices)}
    IN  /\ (lineCells # NULL /\ pagePc # "done") =>
               \A n \in 1..Len(LINES) :
                   (\E c \in indicesOf(n) : zeroStored(c)) => Val(lineCells)[n].value.num = 0
        /\ pagePc = "done" =>
               /\ \A n \in 1..Len(LINES) :
                      (/\ Val(lineCells)[n].status = "active"
                       /\ \E c \in indicesOf(n) : Val(liveProbs)[c] = 0)
                          => Val(lineCells)[n].value.num = 0
               /\ Val(cardLiveWinProb)
                      = FxSub(FxOne,
                              FailProduct(Val(liveProbs),
                                          {l \in TwelveLines : \A c \in l : Val(liveProbs)[c] # 0}))

\* ---------------------------------------------------------------------
\* The estimator on vectors with a certain line: the cells of one of the
\* twelve lines are 1, the others b except for v in cell i and w in the
\* cell opposite to it; and on the vectors that are 0 outside the free cell.
\* ---------------------------------------------------------------------

CertainLineVector(line, b, i, v, w) ==
    [c \in Cells |-> IF c \in line THEN ProbSteps ELSE ProbVector(b, i, v, 24 - i, w)[c]]

InitCertainLine ==
    /\ now = StartTime
    /\ IdleStats /\ IdleCards /\ IdleCollect /\ IdleCardStats /\ IdleCache /\ IdlePage
    /\ IdleBaseline /\ IdleSort /\ IdleLines /\ IdleDouble
    /\ \/ \E n \in 1..Len(LINES), b \in Probs, i \in Cells, v \in Probs, w \in Probs :
             probs = CertainLineVector({LINES[n].indices[k] : k \in 1..5}, b, i, v, w)
       \/ \E v \in Probs : probs = ProbVector(0, FREE_SPACE_INDEX, v, FREE_SPACE_INDEX, v)
    /\ winProb = NULL

SpecCertainLine == InitCertainLine /\ [][NextWin]_vars

\* The lines all of whose cells are 1 in p.
CertainLines(p) == {l \in TwelveLines : \A c \in l : p[c] = ProbSteps}

\* C23: when the five cells of some line are all 1, approximateWinProb
\* returns exactly 1 whatever the other cells hold; for the vector that is
\* 0 in every cell but the free cell it returns exactly 0.
C23_CertainLineWins ==
    winProb # NULL =>
        /\ CertainLines(probs) # {} => Val(winProb) = FxOne
        /\ (\A c \in Cells \ {FREE_SPACE_INDEX} : probs[c] = 0) => Val(winProb) = FxZero

\* C23 witness: the estimate is 1 for a vector whose only certain line is
\* the second diagonal, with 0 in every other cell but one of a fractional
\* probability.
C23_Witness ==
    /\ winProb = Some(FxOne)
    /\ CertainLines(probs) = {{4 * k + 4 : k \in 0..4}}
    /\ Cardinality({c \in Cells : probs[c] = 0}) = 19
    /\ \E c \in Cells : probs[c] \notin {0, ProbSteps}

\* ---------------------------------------------------------------------
\* The estimator in the arithmetic of the program.  A JavaScript Number is
\* an IEEE 754 double: every product and every difference is rounded to
\* the nearest double, ties to even.  A natural number is a sequence of
\* limbs, least significant first and without leading zero limbs (a
\* "big").  A double of [0, 1] is [m, e] and stands for m * 2^e, with m a
\* big of exactly Precision bits; zero is [m |-> <<>>, e |-> 0].  The
\* values met here are far from the subnormal range.
\* ---------------------------------------------------------------------

\* The bits of a limb.
LimbBits == 12

Limb == 2 ^ LimbBits

\* The bits of the significand of a double.
Precision == 53

RECURSIVE BigTrim(_)
BigTrim(a) ==
    IF Len(a) > 0 /\ a[Len(a)] = 0 THEN BigTrim(SubSeq(a, 1, Len(a) - 1)) ELSE a

RECURSIVE BigOf(_)
\* The big of a natural number.
BigOf(n) == IF n = 0 THEN << >> ELSE << n % Limb >> \o BigOf(n \div Limb)

\* Limb i of a, 0 beyond its ends.
Digit(a, i) == IF i \in 1..Len(a) THEN a[i] ELSE 0

RECURSIVE BigColumn(_, _, _, _)
\* The sum of the products a[j] * b[k + 1 - j] for j in i..Len(a).
BigColumn(a, b, k, i) ==
    IF i > Len(a) THEN 0 ELSE a[i] * Digit(b, k + 1 - i) + BigColumn(a, b, k, i + 1)

RECURSIVE BigMulFrom(_, _, _, _)
\* The limbs k.. of a * b, carry coming from the limbs before.
BigMulFrom(a, b, k, carry) ==
    IF k > Len(a) + Len(b) THEN << >>
    ELSE CHOOSE limbs \in {<< t % Limb >> \o BigMulFrom(a, b, k + 1, t \div Limb) :
                             t \in {carry + BigColumn(a, b, k, 1)}} : TRUE

BigMul(a, b) == BigTrim(BigMulFrom(a, b, 1, 0))

RECURSIVE BigSubFrom(_, _, _, _)
\* The limbs i.. of a - b - borrow (a >= b).
BigSubFrom(a, b, i, borrow) ==
    IF i > Len(a) THEN << >>
    ELSE CHOOSE limbs \in {IF t < 0 THEN << t + Limb >> \o BigSubFrom(a, b, i + 1, 1)
                           ELSE << t >> \o BigSubFrom(a, b, i + 1, 0) :
                             t \in {a[i] - Digit(b, i) - borrow}} : TRUE

BigSub(a, b) == BigTrim(BigSubFrom(a, b, 1, 0))

RECURSIVE BigAddOneFrom(_, _)
BigAddOneFrom(a, i) ==
    IF i > Len(a) THEN << 1 >>
    ELSE IF a[i] + 1 < Limb THEN << a[i] + 1 >> \o SubSeq(a, i + 1, Len(a))
    ELSE << 0 >> \o BigAddOneFrom(a, i + 1)

BigAddOne(a) == BigAddOneFrom(a, 1)

\* The number of bits of a: 0 for zero.
BigBitLen(a) ==
    IF a = << >> THEN 0
    ELSE (Len(a) - 1) * LimbBits
         + (CHOOSE n \in 1..LimbBits : 2 ^ (n - 1) <= a[Len(a)] /\ a[Len(a)] < 2 ^ n)

\* a * 2^s
BigShiftLeft(a, s) ==
    LET q == s \div LimbBits
        r == s % LimbBits
    IN  BigTrim([i \in 1..(Len(a) + q + 1) |->
                    IF i <= q THEN 0
                    ELSE ((Digit(a, i - q) * (2 ^ r)) % Limb) + ((Digit(a, i - q - 1) * (2 ^ r)) \div Limb)])

\* a \div 2^s
BigShiftRight(a, s) ==
    LET q == s \div LimbBits
        r == s % LimbBits
    IN  BigTrim([i \in 1..(Len(a) - q) |->
                    (Digit(a, i + q) \div (2 ^ r))
                    + ((Digit(a, i + q + 1) % (2 ^ r)) * (2 ^ (LimbBits - r)))])

\* Bit n of a, bit 0 the least significant.
BigBit(a, n) == (Digit(a, (n \div LimbBits) + 1) \div (2 ^ (n % LimbBits))) % 2

\* The bits of a below bit n are all 0.
BigLowZero(a, n) ==
    /\ \A i \in 1..(n \div LimbBits) : Digit(a, i) = 0
    /\ Digit(a, (n \div LimbBits) + 1) % (2 ^ (n % LimbBits)) = 0

DblZero == [m |-> << >>, e |-> 0]

\* The double nearest to n * 2^e, ties to even, for a big n already bound
\* to its value.
RoundBig(n, e) ==
    IF n = << >> THEN DblZero
    ELSE IF BigBitLen(n) <= Precision
    THEN [m |-> BigShiftLeft(n, Precision - BigBitLen(n)), e |-> e - (Precision - BigBitLen(n))]
    ELSE CHOOSE d \in
            { IF BigBitLen(m) > Precision
              THEN [m |-> BigShiftRight(m, 1), e |-> e + s + 1]
              ELSE [m |-> m, e |-> e + s] :
                s \in {BigBitLen(n) - Precision},
                m \in {IF /\ BigBit(n, BigBitLen(n) - Precision - 1) = 1
                          /\ \/ ~BigLowZero(n, BigBitLen(n) - Precision - 1)
                             \/ BigBit(n, BigBitLen(n) - Precision) = 1
                       THEN BigAddOne(BigShiftRight(n, BigBitLen(n) - Precision))
                       ELSE BigShiftRight(n, BigBitLen(n) - Precision)} } : TRUE

RoundToDouble(n, e) == CHOOSE d \in {RoundBig(k, e) : k \in {n}} : TRUE

\* The literal 1.
DblOne == RoundToDouble(<< 1 >>, 0)

\* x * y
DblMul(x, y) ==
    IF x.m = << >> \/ y.m = << >> THEN DblZero
    ELSE RoundToDouble(BigMul(x.m, y.m), x.e + y.e)

\* x - y, for x >= y.
DblSub(x, y) ==
    IF y.m = << >> THEN x
    ELSE CHOOSE d \in
            { RoundToDouble(BigSub(BigShiftLeft(x.m, x.e - e), BigShiftLeft(y.m, y.e - e)), e) :
                e \in {IF x.e < y.e THEN x.e ELSE y.e} } : TRUE

RECURSIVE lineProbLoopDouble(_, _, _, _)
\* for (const idx of line.indices) lineProb *= probs[idx];
lineProbLoopDouble(p, indices, k, lineProb) ==
    IF k > Len(indices) THEN lineProb
    ELSE CHOOSE result \in {lineProbLoopDouble(p, indices, k + 1, product) :
                               product \in {DblMul(lineProb, p[indices[k]])}} : TRUE

RECURSIVE linesLoopDouble(_, _, _, _)
\* for (const line of LINES) probAllLinesFail *= (1 - lineProb);
linesLoopDouble(p, lines, n, probAllLinesFail) ==
    IF n > Len(lines) THEN probAllLinesFail
    ELSE CHOOSE result \in
            {linesLoopDouble(p, lines, n + 1, product) :
                product \in {DblMul(probAllLinesFail,
                                    DblSub(DblOne,
                                           lineProbLoopDouble(p, lines[n].indices, 1, DblOne)))}} :
            TRUE

\* approximateWinProb (src/app.js 1444-1458) on doubles.
approximateWinProbDouble(p) == DblSub(DblOne, linesLoopDouble(p, LINES, 1, DblOne))

\* The grid of the probabilities given to the estimator on doubles: the
\* multiples of 2^-GridBits, each of them a double.
GridBits == 2

GridSteps == 2 ^ GridBits

\* The double k / GridSteps.
DblOfGrid(k) == RoundToDouble(BigOf(k), 0 - GridBits)

\* The cells whose value departs from the rest of the vector.
DoubleCells == {0, 1, 2, 5, 6, 7}

\* The vector b / GridSteps everywhere, but v / GridSteps in cell i and 1
\* in the free cell.
DoubleVector(b, i, v) ==
    [c \in Cells |-> IF c = FREE_SPACE_INDEX THEN DblOne
                     ELSE IF c = i THEN DblOfGrid(v) ELSE DblOfGrid(b)]

\* The grid with rows and columns exchanged: cell 5r+c holds what cell
\* 5c+r held.
Transposed(p) == [c \in Cells |-> p[5 * (c % 5) + (c \div 5)]]

\* The grid mirrored left-right: cell 5r+c holds what cell 5r+(4-c) held.
Mirrored(p) == [c \in Cells |-> p[5 * (c \div 5) + (4 - (c % 5))]]

InitDouble ==
    /\ now = StartTime
    /\ IdleWin /\ IdleStats /\ IdleCards /\ IdleCollect /\ IdleCardStats /\ IdleCache
    /\ IdlePage /\ IdleBaseline /\ IdleSort /\ IdleLines
    /\ \E b \in 1..(GridSteps - 1), i \in DoubleCells, v \in 0..GridSteps :
          dprobs = DoubleVector(b, i, v)
    /\ estimates = NULL

\* approximateWinProb called with the vector, with its transposition and
\* with its mirror image.
CallApproximateWinProbDouble ==
    /\ estimates = NULL
    /\ estimates' = Some([plain |-> approximateWinProbDouble(dprobs),
                          transposed |-> approximateWinProbDouble(Transposed(dprobs)),
                          mirrored |-> approximateWinProbDouble(Mirrored(dprobs))])
    /\ UNCHANGED <<lineVars, dprobs, sortVars, now, winVars, statsVars, cards, collectVars,
                   cardStatsVars, cacheVars, pageVars, baselineVars>>

NextDouble == CallApproximateWinProbDouble

SpecDouble == InitDouble /\ [][NextDouble]_vars

\* C24: approximateWinProb returns the same value for a vector, for the
\* vector of the transposed grid and for the vector of the grid mirrored
\* left-right.
C24_InvariantUnderSymmetries ==
    estimates # NULL =>
        /\ Val(estimates).transposed = Val(estimates).plain
        /\ Val(estimates).mirrored = Val(estimates).plain

\* ---------------------------------------------------------------------
\* computeMarket24hStats without a bet history.
\* ---------------------------------------------------------------------

\* C25: for a timeline that is absent or empty computeMarket24hStats
\* returns prob24hAgo, high24h, low24h and change24h null and hasActivity
\* false, whatever currentProb is; for a timeline with at least one entry
\* none of the four is null.
C25_NullStatsIffNoTimeline ==
    stats # NULL =>
        IF timeline = NULL \/ Val(timeline) = << >>
        THEN Val(stats) = [prob24hAgo |-> NULL, high24h |-> NULL, low24h |-> NULL,
                           change24h |-> NULL, hasActivity |-> FALSE]
        ELSE /\ Val(stats).prob24hAgo # NULL
             /\ Val(stats).high24h # NULL
             /\ Val(stats).low24h # NULL
             /\ Val(stats).change24h # NULL

\* C25 witness: the statistics of an empty array, asked for a market that
\* stands at probability 1, are all null.
C25_Witness ==
    /\ stats # NULL
    /\ timeline = Some(<< >>)
    /\ currentProb = ProbSteps
    /\ Val(stats).high24h = NULL
    /\ ~Val(stats).hasActivity

\* ---------------------------------------------------------------------
\* The loaded snapshots during a page load.
\* ---------------------------------------------------------------------

\* C26: no step of a page load changes a loaded card: the cards of the
\* feed and the card of the card page keep the fields and the values they
\* were loaded with.
C26_LoadedCardsUnchanged == [][cards' = cards /\ currentCard' = currentCard]_vars

\* ---------------------------------------------------------------------
\* The leaderboard of the index page.
\* ---------------------------------------------------------------------

\* C27: on the index page every active card decorated by computeCardStats
\* from the market data map of displayMarketActivity has
\* low24h <= liveWinProb <= high24h, whichever fetches failed.
C27_LiveWithinRange ==
    (page = "index" /\ cardsWithStats # NULL) =>
        \A n \in 1..Len(Val(cardsWithStats)) :
            ~passesThrough(cards[n]) =>
                /\ FxLeq(Val(Val(cardsWithStats)[n].low24h), Val(cardsWithStats)[n].liveWinProb)
                /\ FxLeq(Val(cardsWithStats)[n].liveWinProb, Val(Val(cardsWithStats)[n].high24h))

\* ---------------------------------------------------------------------
\* The cache under the concurrent bet-history fetches of a batch.
\* ---------------------------------------------------------------------

\* The positions whose bet-history request is answered by the step.
AnsweredNow == {pos \in 1..MaxMarkets :
                   <<"stats", pos>> \in (DOMAIN responses') \ (DOMAIN responses)}

\* The step keeps every entry of the cache, and changes none but the
\* entry of a contract whose bets arrive with it.
CacheStep ==
    /\ DOMAIN sparklineCache \subseteq DOMAIN sparklineCache'
    /\ \A pos \in AnsweredNow :
          IF responses'[<<"stats", pos>>].kind = "ok"
          THEN /\ Val(marketsList[pos].contractId) \in DOMAIN sparklineCache'
               /\ sparklineCache'[Val(marketsList[pos].contractId)].data
                     = timelineOfBets(responses'[<<"stats", pos>>].bets)
               /\ \A c \in DOMAIN sparklineCache \ {Val(marketsList[pos].contractId)} :
                     sparklineCache'[c] = sparklineCache[c]
          ELSE sparklineCache' = sparklineCache
    /\ AnsweredNow = {} => sparklineCache' = sparklineCache

\* Every bet history that has arrived so far in the load is in the cache.
ArrivedAreCached ==
    page = "index" =>
        \A pos \in 1..MaxMarkets :
            (<<"stats", pos>> \in DOMAIN responses /\ responses[<<"stats", pos>>].kind = "ok") =>
                /\ Val(marketsList[pos].contractId) \in DOMAIN sparklineCache
                /\ sparklineCache[Val(marketsList[pos].contractId)].data
                      = timelineOfBets(responses[<<"stats", pos>>].bets)

C29_FeedFollowsSortState ==
    shownMarkets = sortMarkets(marketsWithStats, activitySortState.column,
                               activitySortState.direction)

\* ---------------------------------------------------------------------
\* The live probability against the static one.
\* ---------------------------------------------------------------------

\* The live request for position k was answered with a body that holds a
\* probability.
LiveProbability(k) ==
    IF <<"live", k>> \in DOMAIN responses /\ responses[<<"live", k>>].kind = "ok"
    THEN responses[<<"live", k>>].data.probability
    ELSE NULL

\* C30: a market whose live fetch succeeded with probability p, 0
\* included, has currentProb = p in the list of the index page, and on the
\* card page the live probability of its cell is p.
C30_LiveProbabilityIsUsed ==
    /\ IndexDone =>
          \A k \in 1..Len(marketsArr) :
              LiveProbability(k) # NULL => FinalOf(k).currentProb = LiveProbability(k)
    /\ (page = "card" /\ liveProbs # NULL) =>
          \A c \in Cells :
              LiveProbability(c) # NULL => Val(liveProbs)[c] = Val(LiveProbability(c))

====
